---- MODULE Spec2Model ----
(***************************************************************************)
(* Model of the shared JSON path engine of json-tools (common.mjs):        *)
(* parsePath, extractValues, existsPath, firstValue and resolveArray.      *)
(*                                                                         *)
(* A JavaScript string is a sequence of one-character strings, so that the *)
(* regular expression of parsePath can be run character by character.      *)
(* A JavaScript value is a record [t |-> type tag, v |-> payload].         *)
(***************************************************************************)
EXTENDS Integers, Sequences, FiniteSets, TLC

VARIABLES doc, path, call, result

vars == <<doc, path, call, result>>

----------------------------------------------------------------------------
(* JavaScript values as produced by JSON.parse.                            *)

VNull == [t |-> "null", v |-> 0]

VUndefined == [t |-> "undefined", v |-> 0]

VBool(b) == [t |-> "bool", v |-> b]

VNum(n) == [t |-> "num", v |-> n]

VStr(chars) == [t |-> "str", v |-> chars]

VArr(items) == [t |-> "array", v |-> items]

\* entries: a sequence of [k |-> key, v |-> value] in own-property order.
VObj(entries) == [t |-> "object", v |-> entries]

Entry(key, value) == [k |-> key, v |-> value]

\* Array.isArray(x)
IsArray(x) == x.t = "array"

\* x && typeof x === "object"
IsObjectLike(x) == x.t \in {"array", "object"}

\* x && typeof x === "object" && !Array.isArray(x)
IsMapping(x) == x.t = "object"

----------------------------------------------------------------------------
(* Decimal digits: Number.parseInt(s, 10) and String(n).                   *)

Digits == {"0", "1", "2", "3", "4", "5", "6", "7", "8", "9"}

DigitVal(c) ==
  CASE c = "0" -> 0 [] c = "1" -> 1 [] c = "2" -> 2 [] c = "3" -> 3
    [] c = "4" -> 4 [] c = "5" -> 5 [] c = "6" -> 6 [] c = "7" -> 7
    [] c = "8" -> 8 [] c = "9" -> 9

DigitChar(d) ==
  CASE d = 0 -> "0" [] d = 1 -> "1" [] d = 2 -> "2" [] d = 3 -> "3"
    [] d = 4 -> "4" [] d = 5 -> "5" [] d = 6 -> "6" [] d = 7 -> "7"
    [] d = 8 -> "8" [] d = 9 -> "9"

RECURSIVE ParseInt(_)
ParseInt(s) ==
  IF s = <<>> THEN 0
  ELSE 10 * ParseInt(SubSeq(s, 1, Len(s) - 1)) + DigitVal(s[Len(s)])

RECURSIVE NumToChars(_)
NumToChars(n) ==
  IF n < 10 THEN <<DigitChar(n)>>
  ELSE NumToChars(n \div 10) \o <<DigitChar(n % 10)>>

----------------------------------------------------------------------------
(* PATH_TOKEN_RE = /([^.\[\]]+)|(\[(\*|\d+)\])/g and String.matchAll.      *)

PathSpecials == {".", "[", "]"}

\* Last position of the greedy run [^.\[\]]+ starting at i (i - 1: no match).
RECURSIVE KeyRunEnd(_, _)
KeyRunEnd(s, i) ==
  IF i <= Len(s) /\ s[i] \notin PathSpecials THEN KeyRunEnd(s, i + 1) ELSE i - 1

\* Last position of the greedy run \d+ starting at i (i - 1: no match).
RECURSIVE DigitRunEnd(_, _)
DigitRunEnd(s, i) ==
  IF i <= Len(s) /\ s[i] \in Digits THEN DigitRunEnd(s, i + 1) ELSE i - 1

\* Position of the "]" closing a match of \[(\*|\d+)\] that starts at i,
\* or 0 when the second alternative does not match at i.
BracketEnd(s, i) ==
  IF i > Len(s) \/ s[i] # "[" THEN 0
  ELSE IF i + 2 <= Len(s) /\ s[i + 1] = "*" /\ s[i + 2] = "]" THEN i + 2
  ELSE LET j == DigitRunEnd(s, i + 1)
       IN IF j >= i + 1 /\ j + 1 <= Len(s) /\ s[j + 1] = "]" THEN j + 1 ELSE 0

\* Mutant: the scan stops at the first position where nothing matches.
RECURSIVE MatchAllSticky(_, _)
MatchAllSticky(s, i) ==
  IF i > Len(s) THEN <<>>
  ELSE IF s[i] \notin PathSpecials
    THEN LET j == KeyRunEnd(s, i)
         IN <<[from |-> i, to |-> j, key |-> SubSeq(s, i, j), bracket |-> <<>>]>>
              \o MatchAllSticky(s, j + 1)
  ELSE IF BracketEnd(s, i) # 0
    THEN LET e == BracketEnd(s, i)
         IN <<[from |-> i, to |-> e, key |-> <<>>,
               bracket |-> SubSeq(s, i + 1, e - 1)]>>
              \o MatchAllSticky(s, e + 1)
  ELSE <<>>

\* The matches of the global regular expression from position i on: at each
\* position the first alternative is tried, then the second; a position
\* where neither matches is passed over.
RECURSIVE MatchAllFrom(_, _)
MatchAllFrom(s, i) ==
  IF i > Len(s) THEN <<>>
  ELSE IF s[i] \notin PathSpecials
    THEN LET j == KeyRunEnd(s, i)
         IN <<[from |-> i, to |-> j, key |-> SubSeq(s, i, j), bracket |-> <<>>]>>
              \o MatchAllFrom(s, j + 1)
  ELSE IF BracketEnd(s, i) # 0
    THEN LET e == BracketEnd(s, i)
         IN <<[from |-> i, to |-> e, key |-> <<>>,
               bracket |-> SubSeq(s, i + 1, e - 1)]>>
              \o MatchAllFrom(s, e + 1)
  ELSE MatchAllFrom(s, i + 1)

MatchAll(s) == MatchAllFrom(s, 1)

----------------------------------------------------------------------------
(* The path argument of a call: null / undefined, a string, or an array    *)
(* of tokens.                                                              *)

PNull == [none |-> 0]

PStr(chars) == [str |-> chars]

IsStringPath(p) == DOMAIN p = {"str"}

PTokens(tokens) == [tokens |-> tokens]

IsTokensPath(p) == DOMAIN p = {"tokens"}

\* !path : null, undefined and "" are falsy, every array is truthy.
Falsy(p) == DOMAIN p = {"none"} \/ (IsStringPath(p) /\ p.str = <<>>)

\* Outcome of a call: a returned value or a thrown exception.
Returned(x) == [threw |-> FALSE, val |-> x]

Threw(what) == [threw |-> TRUE, val |-> what]

\* The token pushed for one match (lines 64-74).
TokenOf(m) ==
  IF m.key # <<>> THEN VStr(m.key)
  ELSE IF m.bracket = <<"*">> THEN VStr(<<"*">>)
  ELSE VNum(ParseInt(m.bracket))

RECURSIVE TokensOf(_)
TokensOf(ms) ==
  IF ms = <<>> THEN <<>> ELSE <<TokenOf(Head(ms))>> \o TokensOf(Tail(ms))

\* Mutant: parsePath without the guard for a missing path.
parsePathNoGuard(p) ==
  IF ~IsStringPath(p) THEN Threw("TypeError: path.matchAll is not a function")
  ELSE Returned(TokensOf(MatchAll(p.str)))

parsePath(p) ==
  IF Falsy(p) THEN Returned(<<>>)
  ELSE IF ~IsStringPath(p) THEN Threw("TypeError: path.matchAll is not a function")
  ELSE Returned(TokensOf(MatchAll(p.str)))

----------------------------------------------------------------------------
(* Property access on arrays and mappings.                                 *)

\* The property key a token names: a string as it is, a number by String(n).
PropertyKey(token) == IF token.t = "num" THEN NumToChars(token.v) ELSE token.v

LengthKey == <<"l", "e", "n", "g", "t", "h">>

\* Object.hasOwn(item, key) for an array or a mapping: an array owns its
\* canonical index keys "0" .. "len-1" and "length".
HasOwn(item, key) ==
  IF IsArray(item)
    THEN key = LengthKey \/ \E i \in 0..(Len(item.v) - 1) : key = NumToChars(i)
    ELSE \E n \in 1..Len(item.v) : item.v[n].k = key

\* item[key] when Object.hasOwn(item, key).
GetOwn(item, key) ==
  IF IsArray(item)
    THEN IF key = LengthKey THEN VNum(Len(item.v))
         ELSE item.v[1 + (CHOOSE i \in 0..(Len(item.v) - 1) : key = NumToChars(i))]
    ELSE item.v[CHOOSE n \in 1..Len(item.v) : item.v[n].k = key].v

\* item[n] for an array and an integer n: undefined outside 0 .. len-1.
GetIndex(item, n) ==
  IF n >= 0 /\ n < Len(item.v) THEN item.v[n + 1] ELSE VUndefined

\* Object.values(item) for a mapping.
RECURSIVE EntryValues(_)
EntryValues(entries) ==
  IF entries = <<>> THEN <<>>
  ELSE <<Head(entries).v>> \o EntryValues(Tail(entries))

ObjectValues(item) == EntryValues(item.v)

----------------------------------------------------------------------------
(* extractValues, existsPath, firstValue, resolveArray.                    *)

\* Mutant: a wildcard over a mapping pushes the keys instead of the values.
EmitKeys(item, token) ==
  IF token = VStr(<<"*">>)
    THEN IF IsArray(item) THEN item.v
         ELSE IF IsObjectLike(item)
           THEN [i \in 1..Len(item.v) |-> VStr(item.v[i].k)]
         ELSE <<>>
  ELSE IF token.t = "num"
    THEN IF IsArray(item) /\ token.v >= -Len(item.v) /\ token.v < Len(item.v)
           THEN <<GetIndex(item, token.v)>>
           ELSE <<>>
  ELSE IF IsObjectLike(item) /\ HasOwn(item, PropertyKey(token))
    THEN <<GetOwn(item, PropertyKey(token))>>
  ELSE <<>>

\* What one item of the working set pushes for one token (lines 88-100).
Emit(item, token) ==
  IF token = VStr(<<"*">>)
    THEN IF IsArray(item) THEN item.v
         ELSE IF IsObjectLike(item) THEN ObjectValues(item)
         ELSE <<>>
  ELSE IF token.t = "num"
    THEN IF IsArray(item) /\ token.v >= -Len(item.v) /\ token.v < Len(item.v)
           THEN <<GetIndex(item, token.v)>>
           ELSE <<>>
  ELSE IF IsObjectLike(item) /\ HasOwn(item, PropertyKey(token))
    THEN <<GetOwn(item, PropertyKey(token))>>
  ELSE <<>>

\* nextValues after the inner loop over values (lines 86-101).
RECURSIVE NextValues(_, _)
NextValues(values, token) ==
  IF values = <<>> THEN <<>>
  ELSE Emit(Head(values), token) \o NextValues(Tail(values), token)

\* The outer loop over tokens (lines 85-103).
RECURSIVE WalkTokens(_, _)
WalkTokens(values, tokens) ==
  IF tokens = <<>> THEN values
  ELSE WalkTokens(NextValues(values, Head(tokens)), Tail(tokens))

extractValues(data, p) ==
  LET parsed == parsePath(p)
  IN IF parsed.threw THEN parsed
     ELSE IF Len(parsed.val) = 0 THEN Returned(<<data>>)
     ELSE Returned(WalkTokens(<<data>>, parsed.val))

existsPath(data, p) ==
  LET got == extractValues(data, p)
  IN IF got.threw THEN got ELSE Returned(Len(got.val) > 0)

\* Mutant: the default is returned unless there are at least two values.
firstValueOffByOne(data, p, defaultValue) ==
  LET got == extractValues(data, p)
  IN IF got.threw THEN got
     ELSE Returned(IF Len(got.val) > 1 THEN got.val[1] ELSE defaultValue)

firstValue(data, p, defaultValue) ==
  LET got == extractValues(data, p)
  IN IF got.threw THEN got
     ELSE Returned(IF Len(got.val) > 0 THEN got.val[1] ELSE defaultValue)

\* Index of the first element of values satisfying the test, 0 when none.
FirstArrayAt(values) ==
  IF \E i \in 1..Len(values) : IsArray(values[i])
    THEN CHOOSE i \in 1..Len(values) :
           IsArray(values[i]) /\ \A j \in 1..(i - 1) : ~IsArray(values[j])
    ELSE 0

FirstMappingAt(values) ==
  IF \E i \in 1..Len(values) : IsMapping(values[i])
    THEN CHOOSE i \in 1..Len(values) :
           IsMapping(values[i]) /\ \A j \in 1..(i - 1) : ~IsMapping(values[j])
    ELSE 0

\* Mutant: one loop that returns the first match that is an array or a mapping.
resolveArrayOnePass(data, arrayPath) ==
  IF ~Falsy(arrayPath)
    THEN LET got == extractValues(data, arrayPath)
             hits == {i \in 1..Len(got.val) : IsObjectLike(got.val[i])}
         IN IF got.threw THEN got
            ELSE IF hits = {} THEN Returned(<<>>)
            ELSE LET first == got.val[CHOOSE i \in hits : \A j \in hits : i <= j]
                 IN Returned(IF IsArray(first) THEN first.v ELSE ObjectValues(first))
  ELSE IF IsArray(data) THEN Returned(data.v)
  ELSE Returned(<<>>)

\* Mutant: no fallback to the values of a mapping.
resolveArrayNoFallback(data, arrayPath) ==
  IF ~Falsy(arrayPath)
    THEN LET got == extractValues(data, arrayPath)
         IN IF got.threw THEN got
            ELSE IF FirstArrayAt(got.val) # 0
              THEN Returned(got.val[FirstArrayAt(got.val)].v)
            ELSE Returned(<<>>)
  ELSE IF IsArray(data) THEN Returned(data.v)
  ELSE Returned(<<>>)

\* Mutant: without a path, a mapping document falls back to its values.
resolveArrayAlwaysFallback(data, arrayPath) ==
  IF ~Falsy(arrayPath)
    THEN LET got == extractValues(data, arrayPath)
         IN IF got.threw THEN got
            ELSE IF FirstArrayAt(got.val) # 0
              THEN Returned(got.val[FirstArrayAt(got.val)].v)
            ELSE IF FirstMappingAt(got.val) # 0
              THEN Returned(ObjectValues(got.val[FirstMappingAt(got.val)]))
            ELSE Returned(<<>>)
  ELSE IF IsArray(data) THEN Returned(data.v)
  ELSE IF IsMapping(data) THEN Returned(ObjectValues(data))
  ELSE Returned(<<>>)

\* The record array is returned as a JavaScript array value's elements.
resolveArray(data, arrayPath) ==
  IF ~Falsy(arrayPath)
    THEN LET got == extractValues(data, arrayPath)
         IN IF got.threw THEN got
            ELSE IF FirstArrayAt(got.val) # 0
              THEN Returned(got.val[FirstArrayAt(got.val)].v)
            ELSE IF FirstMappingAt(got.val) # 0
              THEN Returned(ObjectValues(got.val[FirstMappingAt(got.val)]))
            ELSE Returned(<<>>)
  ELSE IF IsArray(data) THEN Returned(data.v)
  ELSE Returned(<<>>)

----------------------------------------------------------------------------
(* Inputs: documents and raw path strings.                                 *)

MaxArrayLen == 2

MaxPathLen == 3

SeqsUpTo(S, n) == UNION {[1..k -> S] : k \in 0..n}

GenLeaves == {VNull, VNum(10)}

\* Every array of at most MaxArrayLen leaves.
GenArrays == {VArr(items) : items \in SeqsUpTo(GenLeaves, MaxArrayLen)}

\* Every mapping over the keys "0" and "a", in the own-property order of
\* JSON.parse (integer keys first, then the others in order of appearance).
GenObjects ==
  {VObj(<<>>)}
    \cup {VObj(<<Entry(<<k>>, x)>>) : k \in {"0", "a"}, x \in GenLeaves}
    \cup {VObj(<<Entry(<<"0">>, x), Entry(<<"a">>, y)>>) :
            x \in GenLeaves, y \in GenLeaves}

Obj1(k, x) == VObj(<<Entry(<<k>>, x)>>)

Obj2(k1, x1, k2, x2) == VObj(<<Entry(<<k1>>, x1), Entry(<<k2>>, x2)>>)

Nums(ns) == VArr([i \in 1..Len(ns) |-> VNum(ns[i])])

DocTens == Nums(<<10, 20, 30>>)

DocAB == Obj2("a", VNum(1), "b", VNum(2))

DocNested == VArr(<<Nums(<<1, 2>>), Nums(<<3>>)>>)

DocUsers == Obj1("a", Nums(<<1, 2>>))

DocObjOfObj == Obj2("a", Obj1("x", VNum(1)), "b", Obj1("y", VNum(2)))

DocStarKey == Obj2("*", VNum(2), "a", VNum(1))

DocMixed == VArr(<<Obj1("a", VNum(1)), Nums(<<10>>), Nums(<<10, 20>>)>>)

DocRecords == Obj1("a", VArr(<<Obj1("b", VNum(10)), Obj1("b", VNum(20))>>))

DocDeep == Obj2("a", Obj1("a", VNull), "b", VStr(<<"a">>))

ExampleDocs ==
  {VBool(TRUE), VStr(<<"a", "0">>), VNum(0), DocTens, DocAB, DocNested,
   DocUsers, DocObjOfObj, DocStarKey, DocMixed, DocRecords, DocDeep}

Docs == GenLeaves \cup GenArrays \cup GenObjects \cup ExampleDocs

PathAlphabet == {"a", ".", "[", "]", "*", "0"}

ExamplePaths ==
  {<<"[", "-", "1", "]">>, <<"[", "-", "4", "]">>, <<"[", "1", "]">>,
   <<"[", "2", "]">>, <<"[", "*", "]", "[", "*", "]">>,
   <<"a", "[", "0", "]">>, <<"a", "[", "1", "]">>, <<"a", "[", "*", "]">>,
   <<"[", "*", "]", ".", "a">>, <<"a", ".", "b">>, <<"a", "[", "b", "]">>,
   <<"[", "0", "0", "]">>, LengthKey, <<"b">>, <<"1">>}

RawPaths ==
  {PNull} \cup {PStr(s) : s \in SeqsUpTo(PathAlphabet, MaxPathLen) \cup ExamplePaths}

Defaults == {VNull, VStr(<<"d">>)}

----------------------------------------------------------------------------
(* One run: a document and a raw path are given, one operation is called.  *)

NoCall == [fn |-> "none", arg |-> PNull, dflt |-> VNull]

Init ==
  /\ doc \in Docs
  /\ path \in RawPaths
  /\ call = NoCall
  /\ result = Returned(<<>>)

\* A path argument as the interface table gives it: the raw string, or the
\* token sequence parsePath returned for it.
PathArguments(p) ==
  {p} \cup {PTokens(parsePath(p).val) : x \in {1}}

CallParsePath ==
  /\ call.fn = "none"
  /\ call' = [fn |-> "parsePath", arg |-> path, dflt |-> VNull]
  /\ result' = parsePath(path)
  /\ UNCHANGED <<doc, path>>

CallExtractValues ==
  /\ call.fn = "none"
  /\ \E arg \in PathArguments(path) :
       /\ call' = [fn |-> "extractValues", arg |-> arg, dflt |-> VNull]
       /\ result' = extractValues(doc, arg)
  /\ UNCHANGED <<doc, path>>

CallExistsPath ==
  /\ call.fn = "none"
  /\ call' = [fn |-> "existsPath", arg |-> path, dflt |-> VNull]
  /\ result' = existsPath(doc, path)
  /\ UNCHANGED <<doc, path>>

CallFirstValue ==
  /\ call.fn = "none"
  /\ \E d \in Defaults :
       /\ call' = [fn |-> "firstValue", arg |-> path, dflt |-> d]
       /\ result' = firstValue(doc, path, d)
  /\ UNCHANGED <<doc, path>>

CallResolveArray ==
  /\ call.fn = "none"
  /\ call' = [fn |-> "resolveArray", arg |-> path, dflt |-> VNull]
  /\ result' = resolveArray(doc, path)
  /\ UNCHANGED <<doc, path>>

Next ==
  \/ CallParsePath
  \/ CallExtractValues
  \/ CallExistsPath
  \/ CallFirstValue
  \/ CallResolveArray

Spec == Init /\ [][Next]_vars

----------------------------------------------------------------------------
(* Shorthands for the properties.                                          *)

\* The operation fn has been called with the raw path string (or null).
CalledRaw(fn) == call.fn = fn /\ call.arg = path

\* The operation fn has been called with a path string.
CalledStr(fn) == CalledRaw(fn) /\ IsStringPath(path)

IsScalar(x) == x.t \in {"null", "bool", "num", "str"}

\* The values of a mapping, by position.
ValuesOf(x) == [i \in 1..Len(x.v) |-> x.v[i].v]

HasKey(x, key) == \E i \in 1..Len(x.v) : x.v[i].k = key

ValueAt(x, key) == x.v[CHOOSE i \in 1..Len(x.v) : x.v[i].k = key].v

\* s spells "[N]" for a signed decimal integer N.
IsSignedIndexPath(s) ==
  /\ Len(s) >= 3
  /\ s[1] = "[" /\ s[Len(s)] = "]"
  /\ LET body == SubSeq(s, 2, Len(s) - 1)
         digits == IF body[1] = "-" THEN Tail(body) ELSE body
     IN digits # <<>> /\ \A i \in 1..Len(digits) : digits[i] \in Digits

SignedIndexOf(s) ==
  LET body == SubSeq(s, 2, Len(s) - 1)
  IN IF body[1] = "-" THEN 0 - ParseInt(Tail(body)) ELSE ParseInt(body)

----------------------------------------------------------------------------
\* C1: for an array A of length n and a signed integer N, extractValues(A,
\* "[N]") is [A[N]] when 0 <= N < n, [A[n+N]] when -n <= N < 0, and []
\* otherwise (the original claim; the code reads "[-1]" as the key "-1").
C1_SignedIndex ==
  (CalledStr("extractValues") /\ IsArray(doc) /\ IsSignedIndexPath(path.str))
    => LET n == Len(doc.v)
           N == SignedIndexOf(path.str)
       IN /\ ~result.threw
          /\ result.val = IF 0 <= N /\ N < n THEN <<doc.v[N + 1]>>
                          ELSE IF -n <= N /\ N < 0 THEN <<doc.v[n + N + 1]>>
                          ELSE <<>>

\* s is one bare mapping key: no dot, no bracket, and not the wildcard.
IsBareKey(s) ==
  /\ s # <<>> /\ s # <<"*">>
  /\ \A i \in 1..Len(s) : s[i] \notin PathSpecials

\* C2: for a mapping-key token k, a value emits its associated value only if
\* it is a mapping containing k; every array, string, number, boolean and
\* null, and every mapping without k, contributes nothing (the original
\* claim; the code also reads own properties of arrays).
C2_KeyOnlyOnMappings ==
  (CalledStr("extractValues") /\ IsBareKey(path.str))
    => /\ ~result.threw
       /\ result.val = IF IsMapping(doc) /\ HasKey(doc, path.str)
                         THEN <<ValueAt(doc, path.str)>>
                         ELSE <<>>

----------------------------------------------------------------------------
(* The path grammar, stated without the scanner: where tokens begin.       *)

\* s[i..j] spells a well-formed bracket token [N] or [*].
WellFormedBracket(s, i, j) ==
  /\ s[i] = "[" /\ s[j] = "]" /\ j >= i + 2
  /\ \/ j = i + 2 /\ s[i + 1] = "*"
     \/ \A n \in (i + 1)..(j - 1) : s[n] \in Digits

BracketStart(s, i) == \E j \in (i + 2)..Len(s) : WellFormedBracket(s, i, j)

BracketStop(s, i) == CHOOSE j \in (i + 2)..Len(s) : WellFormedBracket(s, i, j)

\* A run of ordinary characters begins at i, outside a well-formed bracket.
KeyStart(s, i) ==
  /\ s[i] \notin PathSpecials
  /\ i = 1 \/ s[i - 1] \in PathSpecials
  /\ ~(i > 1 /\ BracketStart(s, i - 1))

KeyStop(s, i) ==
  CHOOSE j \in i..Len(s) :
    /\ \A n \in i..j : s[n] \notin PathSpecials
    /\ j = Len(s) \/ s[j + 1] \in PathSpecials

TokenStarts(s) == {i \in 1..Len(s) : BracketStart(s, i) \/ KeyStart(s, i)}

TokenStop(s, i) == IF BracketStart(s, i) THEN BracketStop(s, i) ELSE KeyStop(s, i)

\* The n-th smallest element of a finite set of integers.
NthOf(S, n) == CHOOSE x \in S : Cardinality({y \in S : y < x}) = n - 1

\* Every position of s lies in the source text of a token or is a dot.
AllAccounted(s) ==
  \A i \in 1..Len(s) :
    s[i] = "." \/ \E b \in TokenStarts(s) : b <= i /\ i <= TokenStop(s, b)

\* A bracket that belongs to no well-formed [N] or [*] token.
HasStrayBracket(s) ==
  \E i \in 1..Len(s) :
    /\ s[i] \in {"[", "]"}
    /\ ~\E b \in TokenStarts(s) : b <= i /\ i <= TokenStop(s, b)

\* C3 as claimed: parsePath returns a token sequence that accounts for
\* every character of the input, or signals a parse failure.
C3_TotalOrFailure ==
  CalledStr("parsePath") => (result.threw \/ AllAccounted(path.str))

\* C3 as amended: parsePath never signals a failure on a string; it returns
\* one token per well-formed bracket and per run of ordinary characters, in
\* input order, so every character other than ".", "[" and "]" lies in the
\* source text of a token, and a bracket outside a well-formed [N] or [*]
\* is discarded silently.
C3_TotalLenient ==
  CalledStr("parsePath") =>
    LET s == path.str
        starts == TokenStarts(s)
    IN /\ ~result.threw
       /\ Len(result.val) = Cardinality(starts)
       /\ \A n \in 1..Len(result.val) :
            LET b == NthOf(starts, n)
                e == TokenStop(s, b)
            IN result.val[n] =
                 IF ~BracketStart(s, b) THEN VStr(SubSeq(s, b, e))
                 ELSE IF s[b + 1] = "*" THEN VStr(<<"*">>)
                 ELSE VNum(ParseInt(SubSeq(s, b + 1, e - 1)))
       /\ \A i \in 1..Len(s) :
            s[i] \notin PathSpecials
              => \E b \in starts : b <= i /\ i <= TokenStop(s, b)

\* C3 witness: an unterminated bracket has been parsed into tokens.
C3_Witness ==
  /\ CalledStr("parsePath")
  /\ path.str = <<"a", "[", "0">>
  /\ HasStrayBracket(path.str)
  /\ result = Returned(<<VStr(<<"a">>), VStr(<<"0">>)>>)

----------------------------------------------------------------------------
(* Literal key matching: a key selects the value of a mapping that has it. *)

LiteralEmit(x, key) ==
  IF IsMapping(x) /\ HasKey(x, key) THEN <<ValueAt(x, key)>> ELSE <<>>

RECURSIVE LiteralStep(_, _)
LiteralStep(values, key) ==
  IF values = <<>> THEN <<>>
  ELSE LiteralEmit(Head(values), key) \o LiteralStep(Tail(values), key)

RECURSIVE LiteralWalk(_, _)
LiteralWalk(values, keys) ==
  IF keys = <<>> THEN values
  ELSE LiteralWalk(LiteralStep(values, Head(keys)), Tail(keys))

\* The runs of ordinary characters of s, in order.
KeyRuns(s) ==
  [n \in 1..Cardinality(TokenStarts(s)) |->
     LET b == NthOf(TokenStarts(s), n) IN SubSeq(s, b, TokenStop(s, b))]

\* s has a bracket and no well-formed [N] or [*] token at all.
OnlyMalformedBrackets(s) ==
  /\ HasStrayBracket(s)
  /\ \A i \in 1..Len(s) : ~BracketStart(s, i)

\* C4: parsePath never raises on a string, and bracket content that is not a
\* well-formed [N] or [*] token is matched by extractValues as a literal
\* mapping key only, never as an array index or as the wildcard (the
\* original claim; the code reads "[*" as the wildcard and "a[0" as an index).
C4_MalformedIsLiteralKey ==
  /\ CalledStr("parsePath") => ~result.threw
  /\ (CalledStr("extractValues") /\ OnlyMalformedBrackets(path.str))
       => /\ ~result.threw
          /\ result.val = LiteralWalk(<<doc>>, KeyRuns(path.str))

----------------------------------------------------------------------------
(* Wildcard.                                                               *)

\* What a wildcard selects from one value: the elements of an array, the
\* values of a mapping, nothing from a scalar or null.
Kids(x) ==
  IF IsArray(x) THEN x.v ELSE IF IsMapping(x) THEN ValuesOf(x) ELSE <<>>

RECURSIVE ConcatKids(_)
ConcatKids(values) ==
  IF values = <<>> THEN <<>>
  ELSE Kids(Head(values)) \o ConcatKids(Tail(values))

WildcardText == <<"[", "*", "]">>

EndsWithWildcard(s) ==
  Len(s) >= 3 /\ SubSeq(s, Len(s) - 2, Len(s)) = WildcardText

BeforeWildcard(s) == SubSeq(s, 1, Len(s) - 3)

\* C5: a wildcard token replaces the working set by the concatenation, in
\* working-set order, of every array's elements in index order and every
\* mapping's values in its key order; scalars and null emit nothing.
C5_Wildcard ==
  /\ (CalledStr("extractValues") /\ EndsWithWildcard(path.str))
       => /\ ~result.threw
          /\ result.val =
               ConcatKids(extractValues(doc, PStr(BeforeWildcard(path.str))).val)
  /\ (CalledStr("extractValues") /\ path.str = WildcardText)
       => /\ doc = DocAB => result.val = <<VNum(1), VNum(2)>>
          /\ IsArray(doc) => result.val = doc.v
          /\ IsScalar(doc) => result.val = <<>>
  /\ (CalledStr("extractValues") /\ path.str = WildcardText \o WildcardText
        /\ doc = DocNested)
       => result.val = <<VNum(1), VNum(2), VNum(3)>>

\* C5 witness: "[*][*]" over [[1,2],[3]] has produced [1,2,3].
C5_Witness ==
  /\ CalledStr("extractValues")
  /\ doc = DocNested
  /\ path.str = WildcardText \o WildcardText
  /\ result = Returned(<<VNum(1), VNum(2), VNum(3)>>)

----------------------------------------------------------------------------
(* Absence.                                                                *)

\* s spells "[N]" for an unsigned decimal N.
IsIndexPath(s) == IsSignedIndexPath(s) /\ s[2] # "-"

C7_EmptyPathIdentity ==
  (CalledRaw("extractValues") /\ (path = PNull \/ path = PStr(<<>>)))
    => result = Returned(<<doc>>)

\* C7 witness: extractValues(D, null) has returned [D] for a mapping D.
C7_Witness ==
  /\ CalledRaw("extractValues")
  /\ path = PNull
  /\ IsMapping(doc)
  /\ result = Returned(<<doc>>)

\* C8: extractValues gives the same result for a path string P and for the
\* token sequence parsePath(P) (the original claim; the code calls matchAll
\* on the token array and throws).
C8_TokensAsPath ==
  (call.fn = "extractValues" /\ IsTokensPath(call.arg))
    => result = extractValues(doc, path)

----------------------------------------------------------------------------
(* resolveArray.                                                           *)

\* C9: for a non-empty arrayPath, resolveArray returns the first extracted
\* value that is an array (whatever precedes or follows it), its elements in
\* order; failing that the values of the first extracted mapping; failing
\* that the empty sequence.
C9_FirstMatchWins ==
  (CalledStr("resolveArray") /\ path.str # <<>>) =>
    LET found == extractValues(doc, path).val
        arrays == {i \in 1..Len(found) : IsArray(found[i])}
        mappings == {i \in 1..Len(found) : IsMapping(found[i])}
    IN /\ ~result.threw
       /\ arrays # {}
            => \E i \in arrays :
                 /\ \A j \in arrays : i <= j
                 /\ result.val = found[i].v
       /\ (arrays = {} /\ mappings # {})
            => \E i \in mappings :
                 /\ \A j \in mappings : i <= j
                 /\ result.val = ValuesOf(found[i])
       /\ (arrays = {} /\ mappings = {}) => result.val = <<>>

\* C9 witness: of the matches [{"a":1}, [10], [10,20]] the array [10] was
\* returned, after a mapping and before a larger array.
C9_Witness ==
  /\ CalledStr("resolveArray")
  /\ doc = DocMixed
  /\ path.str = WildcardText
  /\ result = Returned(<<VNum(10)>>)

\* C10 as claimed: resolveArray({"a":{"x":1},"b":{"y":2}}, "a") returns the
\* empty sequence.
C10_MappingOfScalarsEmpty ==
  (CalledStr("resolveArray") /\ doc = DocObjOfObj /\ path.str = <<"a">>)
    => result = Returned(<<>>)

\* C10 as amended: resolveArray({"a":{"x":1},"b":{"y":2}}, "a") returns [1],
\* the values of the matched mapping {"x":1}: the mapping fallback applies
\* to every mapping, whatever its values are.
C10_MappingOfScalarsValues ==
  (CalledStr("resolveArray") /\ doc = DocObjOfObj /\ path.str = <<"a">>)
    => result = Returned(<<VNum(1)>>)

\* C10 witness: the call has been made and has returned [1].
C10_Witness ==
  /\ CalledStr("resolveArray")
  /\ doc = DocObjOfObj
  /\ path.str = <<"a">>
  /\ result = Returned(<<VNum(1)>>)

\* C11: with no arrayPath (undefined or null), resolveArray returns the
\* document's own elements, in order, when the document is an array, and the
\* empty sequence for every mapping, scalar and null.
C11_AbsentPath ==
  (CalledRaw("resolveArray") /\ path = PNull)
    => result = Returned(IF IsArray(doc) THEN doc.v ELSE <<>>)

\* C11 witness: a non-empty mapping document resolved without a path has
\* given the empty sequence.
C11_Witness ==
  /\ CalledRaw("resolveArray")
  /\ path = PNull
  /\ doc = DocObjOfObj
  /\ result = Returned(<<>>)

----------------------------------------------------------------------------
(* flattenJson (common.mjs).  The output is an ordinary JavaScript object: *)
(* an assignment output[key] = value replaces the value of a key already   *)
(* present and otherwise adds the key, canonical array-index keys first in *)
(* ascending order, the other keys in order of insertion.                  *)

\* key is a canonical array index ("0", "7", "10", not "" or "00").
IsIndexKey(key) ==
  /\ key # <<>>
  /\ \A i \in 1..Len(key) : key[i] \in Digits
  /\ key = <<"0">> \/ key[1] # "0"

EntryAt(entries, key) == CHOOSE i \in 1..Len(entries) : entries[i].k = key

\* Number of entries that stay before a new index key.
IndexKeysBelow(entries, key) ==
  Cardinality({i \in 1..Len(entries) :
                 IsIndexKey(entries[i].k) /\ ParseInt(entries[i].k) < ParseInt(key)})

\* obj[key] = value
PutProp(entries, key, value) ==
  IF \E i \in 1..Len(entries) : entries[i].k = key
    THEN [entries EXCEPT ![EntryAt(entries, key)] = Entry(key, value)]
  ELSE IF IsIndexKey(key)
    THEN LET n == IndexKeysBelow(entries, key)
         IN SubSeq(entries, 1, n) \o <<Entry(key, value)>>
              \o SubSeq(entries, n + 1, Len(entries))
  ELSE Append(entries, Entry(key, value))

\* value.every((item) => !(item && typeof item === "object"))
AllScalars(items) == \A i \in 1..Len(items) : ~IsObjectLike(items[i])

\* Mutant: the separator is put before the key under the empty prefix too.
KeyPrefixNoGuard(prefix, separator, key) == prefix \o separator \o key

\* prefix ? `${prefix}${separator}${key}` : key

KeyPrefix(prefix, separator, key) ==
  IF prefix # <<>> THEN prefix \o separator \o key ELSE key

\* Mutant: expand mode numbers the elements like index mode.
IndexPrefixAlways(prefix, idx, arrayMode) ==
  prefix \o <<"[">> \o NumToChars(idx) \o <<"]">>

\* Mutant: elements are numbered from one.
IndexPrefixOneBased(prefix, idx, arrayMode) ==
  IF arrayMode = "expand" THEN prefix
  ELSE prefix \o <<"[">> \o NumToChars(idx + 1) \o <<"]">>

\* arrayMode === "expand" ? prefix : (prefix ? `${prefix}[${idx}]` : `[${idx}]`)
IndexPrefix(prefix, idx, arrayMode) ==
  IF arrayMode = "expand" THEN prefix
  ELSE prefix \o <<"[">> \o NumToChars(idx) \o <<"]">>

\* ... && prefix : an empty mapping or array is recorded only under a
\* non-empty prefix (lines 143 and 170).
RecordsEmpty(prefix) == prefix # <<>>

\* Mutant: expand mode never keeps an array whole.
KeepsWholeIgnoreOnly(items, arrayMode) == arrayMode = "ignore"

\* The array is recorded as it is (lines 155-165).
KeepsWhole(items, arrayMode) ==
  arrayMode = "ignore" \/ (arrayMode = "expand" /\ AllScalars(items))

RECURSIVE Walk(_, _, _, _, _)
RECURSIVE WalkEntries(_, _, _, _, _)
RECURSIVE WalkItems(_, _, _, _, _, _)

\* for (const [key, inner] of Object.entries(value)) walk(inner, nextPrefix)
WalkEntries(output, entries, prefix, separator, arrayMode) ==
  IF entries = <<>> THEN output
  ELSE WalkEntries(
         Walk(output, Head(entries).v,
              KeyPrefix(prefix, separator, Head(entries).k), separator, arrayMode),
         Tail(entries), prefix, separator, arrayMode)

\* value.forEach((inner, idx) => walk(inner, nextPrefix)), from index idx on
WalkItems(output, items, idx, prefix, separator, arrayMode) ==
  IF idx >= Len(items) THEN output
  ELSE WalkItems(
         Walk(output, items[idx + 1], IndexPrefix(prefix, idx, arrayMode),
              separator, arrayMode),
         items, idx + 1, prefix, separator, arrayMode)

\* walk(value, prefix): the entries of output afterwards.
Walk(output, value, prefix, separator, arrayMode) ==
  IF IsMapping(value)
    THEN IF Len(value.v) = 0 /\ RecordsEmpty(prefix)
           THEN PutProp(output, prefix, VObj(<<>>))
           ELSE WalkEntries(output, value.v, prefix, separator, arrayMode)
  ELSE IF IsArray(value)
    THEN IF KeepsWhole(value.v, arrayMode)
           THEN PutProp(output, prefix, value)
           ELSE LET walked == WalkItems(output, value.v, 0, prefix, separator,
                                        arrayMode)
                IN IF Len(value.v) = 0 /\ RecordsEmpty(prefix)
                     THEN PutProp(walked, prefix, VArr(<<>>))
                     ELSE walked
  ELSE PutProp(output, prefix, value)

flattenJson(data, separator, arrayMode) ==
  VObj(Walk(<<>>, data, <<>>, separator, arrayMode))

----------------------------------------------------------------------------
(* One run of flattenJson: a value, a separator and an array mode are      *)
(* given; flattenJson is called, and may be called again on its output.    *)

Obj3(k1, x1, k2, x2, k3, x3) ==
  VObj(<<Entry(<<k1>>, x1), Entry(<<k2>>, x2), Entry(<<k3>>, x3)>>)

\* {"a":{"b":1},"c":[1,2]}
DocFlatIndex == Obj2("a", Obj1("b", VNum(1)), "c", Nums(<<1, 2>>))

\* {"a":[1,2,3]}
DocFlatWhole == Obj1("a", Nums(<<1, 2, 3>>))

\* {"a":[{"x":1},{"x":2}]}
DocFlatRows == Obj1("a", VArr(<<Obj1("x", VNum(1)), Obj1("x", VNum(2))>>))

\* {"a":[{"x":1}]}
DocFlatOneRow == Obj1("a", VArr(<<Obj1("x", VNum(1))>>))

\* {"a.b":1,"a":{"b":2}}
DocFlatClash ==
  VObj(<<Entry(<<"a", ".", "b">>, VNum(1)), Entry(<<"a">>, Obj1("b", VNum(2)))>>)

\* {"":{"b":1},"c":{}}
DocFlatEmptyKey ==
  VObj(<<Entry(<<>>, Obj1("b", VNum(1))), Entry(<<"c">>, VObj(<<>>))>>)

\* {"":{}}
DocFlatLostEmpty == VObj(<<Entry(<<>>, VObj(<<>>))>>)

\* {"a":[{},5],"b":[[1,2],[]]}
DocFlatMixed ==
  Obj2("a", VArr(<<VObj(<<>>), VNum(5)>>),
       "b", VArr(<<Nums(<<1, 2>>), VArr(<<>>)>>))

\* {"a":1,"b":null,"c":"s"}
DocFlatAlready == Obj3("a", VNum(1), "b", VNull, "c", VStr(<<"s">>))

FlattenParts ==
  {VNum(1), VNull, VObj(<<>>), VArr(<<>>), Obj1("a", VNum(1)), Nums(<<1>>)}

FlattenDocs ==
  Docs
    \cup {Obj1("a", d) : d \in Docs}
    \cup {VArr(<<d, e>>) : d \in FlattenParts, e \in FlattenParts}
    \cup {DocFlatIndex, DocFlatWhole, DocFlatRows, DocFlatOneRow, DocFlatClash,
          DocFlatEmptyKey, DocFlatLostEmpty, DocFlatMixed, DocFlatAlready}

Separators == {<<".">>, <<"_">>, <<>>}

ArrayModes == {"index", "ignore", "expand"}

FlattenInit ==
  /\ doc \in FlattenDocs
  /\ path = PNull
  /\ \E sep \in Separators, mode \in ArrayModes :
       call = [fn |-> "none", separator |-> sep, arrayMode |-> mode]
  /\ result = Returned(<<>>)

CallFlattenJson ==
  /\ call.fn = "none"
  /\ call' = [call EXCEPT !.fn = "flattenJson"]
  /\ result' = Returned(flattenJson(doc, call.separator, call.arrayMode))
  /\ UNCHANGED <<doc, path>>

\* flattenJson applied to the mapping it returned.
CallFlattenJsonAgain ==
  /\ call.fn = "flattenJson"
  /\ call' = [call EXCEPT !.fn = "flattenJson twice"]
  /\ result' = Returned(flattenJson(result.val, call.separator, call.arrayMode))
  /\ UNCHANGED <<doc, path>>

FlattenNext == CallFlattenJson \/ CallFlattenJsonAgain

SpecFlatten == FlattenInit /\ [][FlattenNext]_vars

----------------------------------------------------------------------------
(* The terminal nodes of a value: where the flattener stops.               *)

Flattened == call.fn = "flattenJson"

\* An array that the mode records whole instead of entering it.
Unexpanded(x, arrayMode) ==
  IsArray(x) /\ (arrayMode = "ignore" \/ (arrayMode = "expand" /\ AllScalars(x.v)))

\* A scalar, null, an empty mapping, an empty array or an unexpanded array.
IsTerminal(x, arrayMode) ==
  IsScalar(x) \/ (IsObjectLike(x) /\ Len(x.v) = 0) \/ Unexpanded(x, arrayMode)

\* The children of a node that is entered.
Children(x) == IF IsArray(x) THEN x.v ELSE ValuesOf(x)

RECURSIVE TerminalCount(_, _)
RECURSIVE TerminalCountAll(_, _)

TerminalCount(x, arrayMode) ==
  IF IsTerminal(x, arrayMode) THEN 1
  ELSE TerminalCountAll(Children(x), arrayMode)

TerminalCountAll(xs, arrayMode) ==
  IF xs = <<>> THEN 0
  ELSE TerminalCount(Head(xs), arrayMode) + TerminalCountAll(Tail(xs), arrayMode)

\* C12: the flattened mapping has exactly one entry per terminal node of the
\* value, for every value, separator and array mode, so no leaf is
\* overwritten or lost (the original claim; the code overwrites and drops).
C12_OneEntryPerTerminal ==
  Flattened => Len(result.val.v) = TerminalCount(doc, call.arrayMode)

----------------------------------------------------------------------------
(* Array mode expand.                                                      *)

RECURSIVE HasArray(_)
HasArray(x) ==
  IsArray(x) \/ (IsMapping(x) /\ \E i \in 1..Len(x.v) : HasArray(x.v[i].v))

\* An array with at least one composite element.
CompositeArray(x) == IsArray(x) /\ ~AllScalars(x.v)

\* Object.assign({}, ...objects) for a sequence of mappings.
RECURSIVE AssignEntries(_, _)
AssignEntries(entries, more) ==
  IF more = <<>> THEN entries
  ELSE AssignEntries(PutProp(entries, Head(more).k, Head(more).v), Tail(more))

RECURSIVE AssignAll(_, _)
AssignAll(entries, objects) ==
  IF objects = <<>> THEN entries
  ELSE AssignAll(AssignEntries(entries, Head(objects).v), Tail(objects))

\* C13 as claimed: in mode expand an array with a composite element is
\* flattened as in mode index, element i under the prefix extended by [i]
\* (stated for arrays that hold no further array, where the two modes can
\* differ in nothing else).
C13_ExpandAsIndex ==
  (Flattened /\ call.arrayMode = "expand" /\ CompositeArray(doc)
     /\ \A i \in 1..Len(doc.v) : ~HasArray(doc.v[i]))
    => result.val = flattenJson(doc, call.separator, "index")

\* C13 as amended: in mode expand an array with a composite element is not
\* recorded whole and its elements are recursed into under the array's own
\* prefix, with no [i] added: the result is that of flattening the elements
\* one after the other into the same mapping, a later element overwriting
\* an earlier one under the same key.
C13_ExpandSharesPrefix ==
  (Flattened /\ call.arrayMode = "expand") =>
    /\ CompositeArray(doc) =>
         result.val =
           VObj(AssignAll(<<>>,
                  [i \in 1..Len(doc.v) |->
                     flattenJson(doc.v[i], call.separator, "expand")]))
    /\ (IsMapping(doc) /\ Len(doc.v) = 1 /\ CompositeArray(doc.v[1].v)) =>
         result.val =
           VObj(AssignAll(<<>>,
                  [i \in 1..Len(doc.v[1].v.v) |->
                     flattenJson(VObj(<<Entry(doc.v[1].k, doc.v[1].v.v[i])>>),
                                 call.separator, "expand")]))
    /\ (doc = DocFlatOneRow /\ call.separator = <<".">>) =>
         result.val = VObj(<<Entry(<<"a", ".", "x">>, VNum(1))>>)

\* C13 witness: {"a":[{"x":1},{"x":2}]} flattened in mode expand has given
\* the single entry "a.x" -> 2.
C13_Witness ==
  /\ Flattened
  /\ call.arrayMode = "expand"
  /\ call.separator = <<".">>
  /\ doc = DocFlatRows
  /\ result.val = VObj(<<Entry(<<"a", ".", "x">>, VNum(2))>>)

----------------------------------------------------------------------------
(* Array mode index.                                                       *)

\* The composite key of a mapping entry and of an array element, as the
\* specification words them.
UnderKey(prefix, separator, key) ==
  IF prefix = <<>> THEN key ELSE prefix \o separator \o key

UnderIndex(prefix, idx) == prefix \o <<"[">> \o NumToChars(idx) \o <<"]">>

\* The entries written for a value in mode index, in document order: one per
\* scalar under its composite key, and one per empty composite below the top
\* level.
RECURSIVE IndexLeaves(_, _, _)
RECURSIVE IndexLeavesOfEntries(_, _, _)
RECURSIVE IndexLeavesOfItems(_, _, _, _)

IndexLeaves(x, prefix, separator) ==
  IF IsScalar(x) THEN <<Entry(prefix, x)>>
  ELSE IF Len(x.v) = 0 THEN
    IF prefix = <<>> THEN <<>> ELSE <<Entry(prefix, x)>>
  ELSE IF IsArray(x) THEN IndexLeavesOfItems(x.v, 1, prefix, separator)
  ELSE IndexLeavesOfEntries(x.v, prefix, separator)

IndexLeavesOfEntries(entries, prefix, separator) ==
  IF entries = <<>> THEN <<>>
  ELSE IndexLeaves(Head(entries).v,
                   UnderKey(prefix, separator, Head(entries).k), separator)
         \o IndexLeavesOfEntries(Tail(entries), prefix, separator)

IndexLeavesOfItems(items, i, prefix, separator) ==
  IF i > Len(items) THEN <<>>
  ELSE IndexLeaves(items[i], UnderIndex(prefix, i - 1), separator)
         \o IndexLeavesOfItems(items, i + 1, prefix, separator)

\* C14: in mode index every mapping entry is entered under prefix +
\* separator + key (the key alone under the empty prefix), every array
\* element under prefix + [i] with no separator before the bracket, and
\* each scalar is written under its composite key: the result is the
\* mapping obtained by writing the leaves in document order, and
\* {"a":{"b":1},"c":[1,2]} with "." gives {"a.b":1, "c[0]":1, "c[1]":2}.
C14_IndexKeys ==
  (Flattened /\ call.arrayMode = "index") =>
    /\ result.val =
         VObj(AssignEntries(<<>>, IndexLeaves(doc, <<>>, call.separator)))
    /\ (doc = DocFlatIndex /\ call.separator = <<".">>) =>
         result.val = VObj(<<Entry(<<"a", ".", "b">>, VNum(1)),
                             Entry(<<"c", "[", "0", "]">>, VNum(1)),
                             Entry(<<"c", "[", "1", "]">>, VNum(2))>>)

\* C14 witness: the example document has been flattened in mode index with
\* "." and the three composite keys are there.
C14_Witness ==
  /\ Flattened
  /\ call.arrayMode = "index"
  /\ call.separator = <<".">>
  /\ doc = DocFlatIndex
  /\ Len(result.val.v) = 3
  /\ HasKey(result.val, <<"a", ".", "b">>)
  /\ HasKey(result.val, <<"c", "[", "1", "]">>)

----------------------------------------------------------------------------
(* Empty composites.                                                       *)

EmptyComposite(x) == IsObjectLike(x) /\ Len(x.v) = 0

\* C15: an empty mapping or empty array is never dropped, in any mode and at
\* any depth: at the top level it is recorded under the empty prefix, and as
\* the only value of a mapping it is recorded under that entry's key (the
\* original claim; the code drops it whenever the prefix is the empty string).
C15_EmptyNeverDropped ==
  Flattened =>
    /\ EmptyComposite(doc) => result.val = VObj(<<Entry(<<>>, doc)>>)
    /\ (IsMapping(doc) /\ Len(doc.v) = 1 /\ EmptyComposite(doc.v[1].v)) =>
         result.val = doc

----------------------------------------------------------------------------
(* Arrays recorded whole.                                                  *)

\* The document is a mapping whose only value is an array.
OneArrayField == IsMapping(doc) /\ Len(doc.v) = 1 /\ IsArray(doc.v[1].v)

\* C16: an array is recorded whole under its prefix in mode ignore always,
\* and in mode expand exactly when all its elements are non-composite
\* scalars (null included); {"a":[1,2,3]} in mode expand is returned as it
\* is.
C16_RecordedWhole ==
  Flattened =>
    /\ (IsArray(doc) /\ Unexpanded(doc, call.arrayMode)) =>
         result.val = VObj(<<Entry(<<>>, doc)>>)
    /\ (OneArrayField /\ Unexpanded(doc.v[1].v, call.arrayMode)) =>
         result.val = doc
    /\ (OneArrayField /\ call.arrayMode = "expand"
          /\ CompositeArray(doc.v[1].v)) =>
         result.val # doc
    /\ call.arrayMode = "expand" =>
         \A i \in 1..Len(result.val.v) :
           IsArray(result.val.v[i].v) => AllScalars(result.val.v[i].v.v)
    /\ (doc = DocFlatWhole /\ call.arrayMode = "expand") => result.val = doc

\* C16 witness: {"a":[1,2,3]} has been flattened in mode expand and came
\* back with its array whole.
C16_Witness ==
  /\ Flattened
  /\ call.arrayMode = "expand"
  /\ doc = DocFlatWhole
  /\ result.val = doc

----------------------------------------------------------------------------
(* Idempotence.                                                            *)

FlattenedTwice == call.fn = "flattenJson twice"

\* A mapping whose values are all non-composite.
FlatMapping(x) == IsMapping(x) /\ \A i \in 1..Len(x.v) : IsScalar(x.v[i].v)

\* C17: flattening a mapping whose values are all non-composite returns it
\* unchanged, and flattening a flattened value again, with the same
\* separator and mode, changes nothing.
C17_Idempotent ==
  /\ (Flattened /\ FlatMapping(doc)) => result.val = doc
  /\ FlattenedTwice =>
       result.val = flattenJson(doc, call.separator, call.arrayMode)

\* C17 witness: {"a":{"b":1},"c":[1,2]} has been flattened twice in mode
\* index and the three entries of the first pass are the result.
C17_Witness ==
  /\ FlattenedTwice
  /\ call.arrayMode = "index"
  /\ call.separator = <<".">>
  /\ doc = DocFlatIndex
  /\ Len(result.val.v) = 3
  /\ HasKey(result.val, <<"c", "[", "0", "]">>)

----------------------------------------------------------------------------
(* stableSortKeys, JSON.stringify, pyScalarString and frequency.           *)

Letters ==
  <<"a", "b", "c", "d", "e", "f", "g", "h", "i", "j", "k", "l", "m",
    "n", "o", "p", "q", "r", "s", "t", "u", "v", "w", "x", "y", "z">>

\* The UTF-16 code unit of a character of the inputs.
CharCode(c) ==
  IF c \in Digits THEN 48 + DigitVal(c)
  ELSE IF \E i \in 1..Len(Letters) : Letters[i] = c
    THEN 96 + (CHOOSE i \in 1..Len(Letters) : Letters[i] = c)
  ELSE CASE c = "\"" -> 34 [] c = "*" -> 42 [] c = "-" -> 45 [] c = "." -> 46
         [] c = "[" -> 91 [] c = "\\" -> 92 [] c = "]" -> 93 [] c = "_" -> 95

\* a < b for strings, as Array.prototype.sort() compares them by default.
RECURSIVE StringLess(_, _)
StringLess(a, b) ==
  IF b = <<>> THEN FALSE
  ELSE IF a = <<>> THEN TRUE
  ELSE IF CharCode(Head(a)) = CharCode(Head(b))
    THEN StringLess(Tail(a), Tail(b))
  ELSE CharCode(Head(a)) < CharCode(Head(b))

\* A key inserted at its place in a sorted sequence of keys.
RECURSIVE InsertKey(_, _)
InsertKey(sorted, key) ==
  IF sorted = <<>> THEN <<key>>
  ELSE IF StringLess(key, Head(sorted)) THEN <<key>> \o sorted
  ELSE <<Head(sorted)>> \o InsertKey(Tail(sorted), key)

\* Object.keys(value).sort()
RECURSIVE SortedKeysFrom(_, _)
SortedKeysFrom(sorted, entries) ==
  IF entries = <<>> THEN sorted
  ELSE SortedKeysFrom(InsertKey(sorted, Head(entries).k), Tail(entries))

\* Mutant: Object.keys(value) without the sort.
UnsortedKeys(entries) == [i \in 1..Len(entries) |-> entries[i].k]

SortedKeys(entries) == SortedKeysFrom(<<>>, entries)

RECURSIVE stableSortKeys(_)
RECURSIVE StableSortInto(_, _, _)

\* for (const key of Object.keys(value).sort()) out[key] = stableSortKeys(value[key])
StableSortInto(out, keys, value) ==
  IF keys = <<>> THEN out
  ELSE StableSortInto(
         PutProp(out, Head(keys), stableSortKeys(ValueAt(value, Head(keys)))),
         Tail(keys), value)

stableSortKeys(value) ==
  IF IsArray(value)
    THEN VArr([i \in 1..Len(value.v) |-> stableSortKeys(value.v[i])])
  ELSE IF IsMapping(value)
    THEN VObj(StableSortInto(<<>>, SortedKeys(value.v), value))
  ELSE value

\* String(n) for an integer.
NumberToString(n) == IF n < 0 THEN <<"-">> \o NumToChars(0 - n) ELSE NumToChars(n)

\* A string as JSON.stringify quotes it.
RECURSIVE Escaped(_)
Escaped(chars) ==
  IF chars = <<>> THEN <<>>
  ELSE (IF Head(chars) \in {"\"", "\\"} THEN <<"\\", Head(chars)>>
        ELSE <<Head(chars)>>) \o Escaped(Tail(chars))

Quoted(chars) == <<"\"">> \o Escaped(chars) \o <<"\"">>

RECURSIVE JSONStringify(_)
RECURSIVE StringifyItems(_, _)
RECURSIVE StringifyEntries(_, _)

\* JSON.stringify(value), compact.
JSONStringify(value) ==
  CASE value.t = "null" -> <<"n", "u", "l", "l">>
    [] value.t = "undefined" -> <<"n", "u", "l", "l">>
    [] value.t = "bool" ->
         IF value.v THEN <<"t", "r", "u", "e">> ELSE <<"f", "a", "l", "s", "e">>
    [] value.t = "num" -> NumberToString(value.v)
    [] value.t = "str" -> Quoted(value.v)
    [] value.t = "array" -> <<"[">> \o StringifyItems(value.v, TRUE) \o <<"]">>
    [] value.t = "object" -> <<"{">> \o StringifyEntries(value.v, TRUE) \o <<"}">>

StringifyItems(items, first) ==
  IF items = <<>> THEN <<>>
  ELSE (IF first THEN <<>> ELSE <<",">>) \o JSONStringify(Head(items))
         \o StringifyItems(Tail(items), FALSE)

\* An entry whose value is undefined is left out.
StringifyEntries(entries, first) ==
  IF entries = <<>> THEN <<>>
  ELSE IF Head(entries).v.t = "undefined"
    THEN StringifyEntries(Tail(entries), first)
  ELSE (IF first THEN <<>> ELSE <<",">>)
         \o Quoted(Head(entries).k) \o <<":">> \o JSONStringify(Head(entries).v)
         \o StringifyEntries(Tail(entries), FALSE)

pyScalarString(value) ==
  CASE value.t = "null" -> <<"N", "o", "n", "e">>
    [] value.t = "bool" ->
         IF value.v THEN <<"T", "r", "u", "e">> ELSE <<"F", "a", "l", "s", "e">>
    [] value.t = "num" -> NumberToString(value.v)
    [] value.t = "str" -> value.v
    [] value.t = "undefined" ->
         <<"u", "n", "d", "e", "f", "i", "n", "e", "d">>

\* The bucket a value is counted in.
Normalized(value) ==
  IF IsObjectLike(value) THEN JSONStringify(stableSortKeys(value))
  ELSE pyScalarString(value)

Bucket(key, count) == [key |-> key, count |-> count]

\* counts.set(normalized, (counts.get(normalized) ?? 0) + 1): a Map keeps
\* the place of a key it already has.
CountOne(counts, key) ==
  IF \E i \in 1..Len(counts) : counts[i].key = key
    THEN [i \in 1..Len(counts) |->
            IF counts[i].key = key THEN Bucket(key, counts[i].count + 1)
            ELSE counts[i]]
  ELSE Append(counts, Bucket(key, 1))

RECURSIVE FrequencyFrom(_, _)
FrequencyFrom(counts, values) ==
  IF values = <<>> THEN counts
  ELSE FrequencyFrom(CountOne(counts, Normalized(Head(values))), Tail(values))

frequency(values) == FrequencyFrom(<<>>, values)

\* {"a":1,"b":2} and {"b":2,"a":1}
FreqAB == Obj2("a", VNum(1), "b", VNum(2))

FreqBA == Obj2("b", VNum(2), "a", VNum(1))

\* {"a":{"x":1,"y":2},"ab":[1,2]} and {"ab":[1,2],"a":{"y":2,"x":1}}
FreqDeep ==
  VObj(<<Entry(<<"a">>, Obj2("x", VNum(1), "y", VNum(2))),
         Entry(<<"a", "b">>, Nums(<<1, 2>>))>>)

FreqDeepSwapped ==
  VObj(<<Entry(<<"a", "b">>, Nums(<<1, 2>>)),
         Entry(<<"a">>, Obj2("y", VNum(2), "x", VNum(1)))>>)

\* {"a":{"x":1,"y":2},"ab":[2,1]}
FreqDeepOther ==
  VObj(<<Entry(<<"a">>, Obj2("x", VNum(1), "y", VNum(2))),
         Entry(<<"a", "b">>, Nums(<<2, 1>>))>>)

FrequencyValues ==
  { FreqAB, FreqBA, FreqDeep, FreqDeepSwapped, FreqDeepOther,
    Obj1("a", VNum(1)), VObj(<<>>), VArr(<<>>),
    Nums(<<1, 2>>), Nums(<<2, 1>>), Nums(<<1, 1>>),
    VArr(<<FreqAB, VNum(1)>>), VArr(<<VNum(1), FreqBA>>),
    VArr(<<FreqBA, VNum(1)>>),
    VArr(<<VNum(1), VStr(<<"1">>)>>), VArr(<<VStr(<<"1">>), VNum(1)>>),
    VNum(1), VStr(<<"1">>), VNull, VBool(TRUE),
    VStr(<<"[", "1", ",", "2", "]">>), VStr(<<"N", "o", "n", "e">>) }

FrequencyInit ==
  /\ doc \in {VArr(<<x, y>>) : x \in FrequencyValues, y \in FrequencyValues}
  /\ path = PNull
  /\ call = [fn |-> "none"]
  /\ result = Returned(<<>>)

CallStableSortKeys ==
  /\ call.fn = "none"
  /\ call' = [fn |-> "stableSortKeys"]
  /\ result' = Returned(stableSortKeys(doc))
  /\ UNCHANGED <<doc, path>>

CallFrequency ==
  /\ call.fn = "none"
  /\ call' = [fn |-> "frequency"]
  /\ result' = Returned(frequency(doc.v))
  /\ UNCHANGED <<doc, path>>

FrequencyNext == CallStableSortKeys \/ CallFrequency

SpecFrequency == FrequencyInit /\ [][FrequencyNext]_vars

CountedFrequency == call.fn = "frequency"

\* Two values with the same type tree, keys and values, the order of the
\* keys of a mapping set aside.
RECURSIVE SameUpToKeyOrder(_, _)
SameUpToKeyOrder(x, y) ==
  /\ x.t = y.t
  /\ IF IsArray(x) THEN
       /\ Len(x.v) = Len(y.v)
       /\ \A i \in 1..Len(x.v) : SameUpToKeyOrder(x.v[i], y.v[i])
     ELSE IF IsMapping(x) THEN
       /\ Len(x.v) = Len(y.v)
       /\ \A i \in 1..Len(x.v) : \E j \in 1..Len(y.v) :
            /\ x.v[i].k = y.v[j].k
            /\ SameUpToKeyOrder(x.v[i].v, y.v[j].v)
     ELSE x = y

\* C26: frequency counts two values in the same bucket only if they have the
\* same type tag and are structurally equal: the number of buckets (stats'
\* unique_values) is the number of structurally distinct values, so the number
\* 1 and the string "1", or null and the string "None", get a bucket each.
C26_NeverMerges ==
  CountedFrequency =>
    (Len(result.val) = 1 <=> SameUpToKeyOrder(doc.v[1], doc.v[2]))

\* Two arrays with the same elements in a different order.
Permuted(x, y) ==
  /\ IsArray(x) /\ IsArray(y) /\ Len(x.v) = Len(y.v)
  /\ ~SameUpToKeyOrder(x, y)
  /\ \E p \in [1..Len(x.v) -> 1..Len(x.v)] :
       /\ \A i, j \in 1..Len(x.v) : p[i] = p[j] => i = j
       /\ \A i \in 1..Len(x.v) : SameUpToKeyOrder(x.v[i], y.v[p[i]])

\* C18: two composite values that differ only in the order of the keys of
\* their mappings, at any depth, are counted in one frequency bucket, and
\* two arrays holding the same elements in a different order are counted in
\* two; {"b":2,"a":1} and {"a":1,"b":2} are both counted under
\* {"a":1,"b":2}.
C18_CanonicalKey ==
  CountedFrequency =>
    /\ (IsObjectLike(doc.v[1]) /\ SameUpToKeyOrder(doc.v[1], doc.v[2])) =>
         /\ Len(result.val) = 1
         /\ result.val[1].count = 2
    /\ Permuted(doc.v[1], doc.v[2]) =>
         /\ Len(result.val) = 2
         /\ result.val[1].count = 1
         /\ result.val[2].count = 1
    /\ doc = VArr(<<FreqBA, FreqAB>>) =>
         result.val =
           <<Bucket(<<"{", "\"", "a", "\"", ":", "1", ",",
                      "\"", "b", "\"", ":", "2", "}">>, 2)>>

\* C18 witness: frequency has counted {"ab":[1,2],"a":{"y":2,"x":1}} and
\* {"a":{"x":1,"y":2},"ab":[1,2]} in one bucket.
C18_Witness ==
  /\ CountedFrequency
  /\ doc = VArr(<<FreqDeepSwapped, FreqDeep>>)
  /\ Len(result.val) = 1
  /\ result.val[1].count = 2

\* Frequency has counted [1,2] and [2,1] in two buckets.
C18_WitnessArrays ==
  /\ CountedFrequency
  /\ doc = VArr(<<Nums(<<1, 2>>), Nums(<<2, 1>>)>>)
  /\ Len(result.val) = 2

----------------------------------------------------------------------------
(* group: groupKey, groupKeyString and the grouping loop; merge:           *)
(* mergeArrays.                                                            *)

\* typeof v
TypeOf(x) ==
  CASE x.t = "undefined" -> <<"u", "n", "d", "e", "f", "i", "n", "e", "d">>
    [] x.t = "bool" -> <<"b", "o", "o", "l", "e", "a", "n">>
    [] x.t = "num" -> <<"n", "u", "m", "b", "e", "r">>
    [] x.t = "str" -> <<"s", "t", "r", "i", "n", "g">>
    [] x.t \in {"null", "array", "object"} -> <<"o", "b", "j", "e", "c", "t">>

\* `${typeof v}:${JSON.stringify(v)}` (JSON.stringify(undefined) is
\* undefined and is spelled so by the template).
TypedToken(x) ==
  TypeOf(x) \o <<":">>
    \o (IF x.t = "undefined" THEN TypeOf(x) ELSE JSONStringify(x))

\* raw.split(",").map((item) => item.trim()).filter(Boolean), for a text
\* without white space.
RECURSIVE SplitFields(_, _)
SplitFields(raw, field) ==
  IF raw = <<>> THEN (IF field = <<>> THEN <<>> ELSE <<field>>)
  ELSE IF Head(raw) = ","
    THEN (IF field = <<>> THEN <<>> ELSE <<field>>) \o SplitFields(Tail(raw), <<>>)
  ELSE SplitFields(Tail(raw), Append(field, Head(raw)))

parseFields(raw) == SplitFields(raw, <<>>)

\* One component of the group key: a composite value is replaced by its
\* JSON text.
\* if (value && typeof value === "object") value = JSON.stringify(value)
TextIfComposite(value) ==
  IF IsObjectLike(value) THEN VStr(JSONStringify(value)) ELSE value

KeyComponent(record, field) ==
  TextIfComposite(firstValue(record, PStr(field), VNull).val)

groupKey(record, byFields) ==
  [i \in 1..Len(byFields) |-> KeyComponent(record, byFields[i])]

\* keyArr.map(...).join("|")
RECURSIVE JoinTokens(_, _)
JoinTokens(keyArr, first) ==
  IF keyArr = <<>> THEN <<>>
  ELSE (IF first THEN <<>> ELSE <<"|">>) \o TypedToken(Head(keyArr))
         \o JoinTokens(Tail(keyArr), FALSE)

groupKeyString(keyArr) == JoinTokens(keyArr, TRUE)

Group(keyStr, keyArr, records) ==
  [keyStr |-> keyStr, keyArr |-> keyArr, records |-> records]

\* One turn of the grouping loop: groupMap and groupKeys together, in the
\* order of first appearance.
AddUnder(groups, record, keyArr, keyStr) ==
  IF \E i \in 1..Len(groups) : groups[i].keyStr = keyStr
    THEN [i \in 1..Len(groups) |->
            IF groups[i].keyStr = keyStr
              THEN Group(keyStr, groups[i].keyArr,
                         Append(groups[i].records, record))
            ELSE groups[i]]
  ELSE Append(groups, Group(keyStr, keyArr, <<record>>))

AddKeyed(groups, record, keyArr) ==
  AddUnder(groups, record, keyArr, groupKeyString(keyArr))

AddToGroup(groups, record, byFields) ==
  AddKeyed(groups, record, groupKey(record, byFields))

RECURSIVE GroupRecords(_, _, _)
GroupRecords(groups, records, byFields) ==
  IF records = <<>> THEN groups
  ELSE GroupRecords(AddToGroup(groups, Head(records), byFields),
                    Tail(records), byFields)

\* A row of the output: the key components and the count.
Row(keyArr, count) == [keyArr |-> keyArr, count |-> count]

\* rows.sort((a, b) => b.count - a.count): stable, larger counts first.
RECURSIVE InsertRow(_, _)
InsertRow(sorted, row) ==
  IF sorted = <<>> THEN <<row>>
  ELSE IF row.count > Head(sorted).count THEN <<row>> \o sorted
  ELSE <<Head(sorted)>> \o InsertRow(Tail(sorted), row)

RECURSIVE SortRowsFrom(_, _)
SortRowsFrom(sorted, rows) ==
  IF rows = <<>> THEN sorted
  ELSE SortRowsFrom(InsertRow(sorted, Head(rows)), Tail(rows))

\* records = resolveArray(data, arrayPath), the whole document when empty.
WholeIfNone(records, data) ==
  IF Len(records) = 0 THEN (IF IsArray(data) THEN data.v ELSE <<data>>)
  ELSE records

GroupInput(data, arrayPath) ==
  WholeIfNone(resolveArray(data, arrayPath).val, data)

\* main of group with --by and the defaults of the other options.
\* The rows built from the groups, sorted, and the totals.
GroupOutput(records, groups) ==
  [total_records |-> Len(records),
   total_groups |-> Len(groups),
   groups |->
     SortRowsFrom(<<>>,
       [i \in 1..Len(groups) |->
          Row(groups[i].keyArr, Len(groups[i].records))])]

GroupedOutput(records, byFields) ==
  GroupOutput(records, GroupRecords(<<>>, records, byFields))

groupMain(data, by) ==
  IF Falsy(by) THEN Threw("--by is required")
  ELSE Returned(GroupedOutput(GroupInput(data, PNull), parseFields(by.str)))

\* combined.push(...arr) for every array.
RECURSIVE Combined(_)
Combined(arrays) ==
  IF arrays = <<>> THEN <<>> ELSE Head(arrays).v \o Combined(Tail(arrays))

UniqueToken(item, uniqueBy) == TypedToken(firstValue(item, uniqueBy, VNull).val)

RECURSIVE Deduped(_, _, _, _)
Deduped(kept, seen, items, uniqueBy) ==
  IF items = <<>> THEN kept
  ELSE LET token == UniqueToken(Head(items), uniqueBy)
       IN IF token \in seen THEN Deduped(kept, seen, Tail(items), uniqueBy)
          ELSE Deduped(Append(kept, Head(items)), seen \cup {token},
                       Tail(items), uniqueBy)

mergeArrays(arrays, uniqueBy) ==
  IF Falsy(uniqueBy) THEN Combined(arrays)
  ELSE Deduped(<<>>, {}, Combined(arrays), uniqueBy)

\* docs.filter((doc) => Array.isArray(doc))
RECURSIVE OnlyArrays(_)
OnlyArrays(docs) ==
  IF docs = <<>> THEN <<>>
  ELSE (IF IsArray(Head(docs)) THEN <<Head(docs)>> ELSE <<>>)
         \o OnlyArrays(Tail(docs))

\* main of merge in mode concat.
mergeMain(docs, uniqueBy) == Returned(VArr(mergeArrays(OnlyArrays(docs), uniqueBy)))

GroupFieldValues ==
  { FreqAB, FreqBA, Obj1("a", VNum(1)), Nums(<<1, 2>>), Nums(<<2, 1>>),
    VNum(1), VStr(<<"1">>), VNull, VBool(TRUE) }

GroupRecordValues ==
  {Obj1("k", x) : x \in GroupFieldValues}
    \cup { Obj2("k", FreqAB, "j", VNum(1)), Obj2("k", FreqBA, "j", VNum(2)),
           VObj(<<>>) }

\* The values of --by and of --unique-by.
ByFields == {PNull, PStr(<<"k">>), PStr(<<"k", ",", "j">>)}

GroupInit ==
  /\ doc \in {VArr(<<r1, r2>>) : r1 \in GroupRecordValues, r2 \in GroupRecordValues}
  /\ path \in ByFields
  /\ call = [fn |-> "none"]
  /\ result = Returned(<<>>)

\* group --by path, the records being the elements of the document.
CallGroup ==
  /\ call.fn = "none"
  /\ call' = [fn |-> "group"]
  /\ result' = groupMain(doc, path)
  /\ UNCHANGED <<doc, path>>

\* merge --mode concat --unique-by path, every record of the document
\* arriving in an input of its own.
CallMerge ==
  /\ call.fn = "none"
  /\ call' = [fn |-> "merge"]
  /\ result' = mergeMain([i \in 1..Len(doc.v) |-> VArr(<<doc.v[i]>>)], path)
  /\ UNCHANGED <<doc, path>>

GroupNext == CallGroup \/ CallMerge

SpecGroup == GroupInit /\ [][GroupNext]_vars

\* The field k of both records holds a mapping, the same up to key order.
SameMappingUnderK ==
  /\ \A i \in 1..2 : IsMapping(doc.v[i]) /\ HasKey(doc.v[i], <<"k">>)
  /\ IsMapping(ValueAt(doc.v[1], <<"k">>))
  /\ SameUpToKeyOrder(ValueAt(doc.v[1], <<"k">>), ValueAt(doc.v[2], <<"k">>))

\* C19: two records whose group-by field (group) or unique-by field (merge,
\* mode concat) hold mappings with the same keys and values in a different
\* key order fall into one group, respectively the second is dropped as a
\* duplicate (the original claim; the code compares the JSON text of the
\* mappings with their keys in their own order).
C19_KeyOrderIgnored ==
  (SameMappingUnderK /\ path = PStr(<<"k">>)) =>
    /\ call.fn = "group" => result.val.total_groups = 1
    /\ call.fn = "merge" => Len(result.val.v) = 1

\* firstValue(item, K), null when K has no match in the item.
UniqueKey(item) == firstValue(item, path, VNull).val

\* The items the merge keeps among the first n of the concatenation: those
\* that no earlier item shares the value of K with.
FirstOfEachKey(items) ==
  {i \in 1..Len(items) :
     \A j \in 1..(i - 1) : ~SameUpToKeyOrder(UniqueKey(items[j]), UniqueKey(items[i]))}

\* C29: merge in concat mode with --unique-by K returns the subsequence of
\* the concatenated inputs that holds, for each distinct value of
\* firstValue(item, K), exactly the first item having it; items without a
\* match for K share the key null with the items whose K is null.
C29_FirstOfEachKey ==
  (call.fn = "merge" /\ ~Falsy(path)) =>
    /\ IsArray(result.val)
    /\ Len(result.val.v) = Cardinality(FirstOfEachKey(doc.v))
    /\ 1 \in FirstOfEachKey(doc.v) /\ result.val.v[1] = doc.v[1]
    /\ 2 \in FirstOfEachKey(doc.v) => result.val.v[2] = doc.v[2]

----------------------------------------------------------------------------
(* The records each command works on.                                      *)

\* filter: rows = resolveArray(...); a document that is not an array
\* stands for the rows when there are none.
filterRows(data, arrayPath) ==
  LET rows == resolveArray(data, arrayPath).val
  IN IF Len(rows) = 0 /\ ~IsArray(data) THEN <<data>> ELSE rows

\* sort, reverse and stats (group: GroupInput): without rows, the elements
\* of the document when it is an array, else the document as one row.
sortRows(data, arrayPath) ==
  LET rows == resolveArray(data, arrayPath).val
  IN IF Len(rows) = 0 THEN (IF IsArray(data) THEN data.v ELSE <<data>>)
     ELSE rows

reverseRows(data, arrayPath) ==
  LET rows == resolveArray(data, arrayPath).val
  IN IF Len(rows) = 0 THEN (IF IsArray(data) THEN data.v ELSE <<data>>)
     ELSE rows

statsRecords(data, arrayPath) ==
  LET records == resolveArray(data, arrayPath).val
  IN IF Len(records) = 0 THEN (IF IsArray(data) THEN data.v ELSE <<data>>)
     ELSE records

\* An option --first / --last: <<>> when it is not given, else <<n>>.
NoLimit == <<>>

Max(a, b) == IF a > b THEN a ELSE b

Min(a, b) == IF a < b THEN a ELSE b

\* rows.slice(0, n) for n >= 0
SliceFirst(rows, n) == SubSeq(rows, 1, Min(n, Len(rows)))

\* rows.slice(-n) for n >= 0: slice(-0) is slice(0), the whole array.
SliceLast(rows, n) ==
  IF n = 0 THEN rows ELSE SubSeq(rows, Max(Len(rows) - n, 0) + 1, Len(rows))

selectRows(data, arrayPath, first, last) ==
  LET rows == resolveArray(data, arrayPath).val
      headed == IF first # NoLimit THEN SliceFirst(rows, Max(first[1], 0))
                ELSE rows
  IN IF last # NoLimit THEN SliceLast(headed, Max(last[1], 0)) ELSE headed

\* extract (lines 66-71).
extractRows(data, arrayPath, first, last) ==
  LET rows == selectRows(data, arrayPath, first, last)
  IN IF Len(rows) = 0 /\ ~IsArray(data) THEN <<data>>
     ELSE IF IsArray(data) /\ arrayPath = PNull
       THEN selectRows(data, PNull, first, last)
     ELSE rows

\* Mutant: without rows, the document is wrapped as one record.
flattenTargetWrapped(data, arrayPath) ==
  IF ~Falsy(arrayPath)
    THEN LET target == resolveArray(data, arrayPath).val
         IN IF Len(target) = 0
              THEN (IF IsArray(data) THEN data ELSE VArr(<<data>>))
            ELSE VArr(target)
  ELSE IF IsArray(data) THEN data ELSE VArr(<<data>>)

\* flatten (lines 26-34): the document itself stands for a missing target.
flattenTarget(data, arrayPath) ==
  IF ~Falsy(arrayPath)
    THEN LET target == resolveArray(data, arrayPath).val
         IN IF Len(target) = 0 THEN data ELSE VArr(target)
  ELSE data

\* flatten (lines 36-38), with the default separator and array mode.
flattenMain(data, arrayPath) ==
  LET target == flattenTarget(data, arrayPath)
  IN IF IsArray(target)
       THEN VArr([i \in 1..Len(target.v) |->
                    flattenJson(target.v[i], <<".">>, "index")])
     ELSE flattenJson(target, <<".">>, "index")

MaxArrayPathLen == 2

\* The values of --array-path.
ArrayPaths ==
  {PNull}
    \cup {PStr(s) : s \in SeqsUpTo(PathAlphabet, MaxArrayPathLen) \cup ExamplePaths}

Limits == {NoLimit, <<0>>, <<1>>}

NoCommand == [fn |-> "none", first |-> NoLimit, last |-> NoLimit]

CommandInit ==
  /\ doc \in Docs
  /\ path \in ArrayPaths
  /\ call = NoCommand
  /\ result = Returned(<<>>)

Ran(command) == [NoCommand EXCEPT !.fn = command]

CallFilter ==
  /\ call.fn = "none"
  /\ call' = Ran("filter")
  /\ result' = Returned(VArr(filterRows(doc, path)))
  /\ UNCHANGED <<doc, path>>

CallExtract ==
  /\ call.fn = "none"
  /\ \E first \in Limits, last \in Limits :
       /\ call' = [fn |-> "extract", first |-> first, last |-> last]
       /\ result' = Returned(VArr(extractRows(doc, path, first, last)))
  /\ UNCHANGED <<doc, path>>

CallSort ==
  /\ call.fn = "none"
  /\ call' = Ran("sort")
  /\ result' = Returned(VArr(sortRows(doc, path)))
  /\ UNCHANGED <<doc, path>>

CallGroupRows ==
  /\ call.fn = "none"
  /\ call' = Ran("group")
  /\ result' = Returned(VArr(GroupInput(doc, path)))
  /\ UNCHANGED <<doc, path>>

CallReverse ==
  /\ call.fn = "none"
  /\ call' = Ran("reverse")
  /\ result' = Returned(VArr(reverseRows(doc, path)))
  /\ UNCHANGED <<doc, path>>

CallStats ==
  /\ call.fn = "none"
  /\ call' = Ran("stats")
  /\ result' = Returned(VArr(statsRecords(doc, path)))
  /\ UNCHANGED <<doc, path>>

CallFlatten ==
  /\ call.fn = "none"
  /\ call' = Ran("flatten")
  /\ result' = Returned(flattenMain(doc, path))
  /\ UNCHANGED <<doc, path>>

CommandNext ==
  \/ CallFilter
  \/ CallExtract
  \/ CallSort
  \/ CallGroupRows
  \/ CallReverse
  \/ CallStats
  \/ CallFlatten

SpecCommands == CommandInit /\ [][CommandNext]_vars

RowCommands == {"filter", "extract", "sort", "group", "reverse", "stats"}

\* resolveArray has found no records for the document and the array path.
NothingResolved == resolveArray(doc, path).val = <<>>

\* C20 as claimed: every command, flatten included, works on [document]
\* when resolveArray finds nothing and the document is not an array, so
\* that its output is that of one record.
C20_EveryCommandWraps ==
  (NothingResolved /\ ~IsArray(doc)) =>
    /\ call.fn \in RowCommands => result.val = VArr(<<doc>>)
    /\ call.fn = "flatten" =>
         result.val = VArr(<<flattenJson(doc, <<".">>, "index")>>)

\* C20 as amended: when resolveArray finds nothing, filter, extract, sort,
\* group, reverse and stats work on [document] if the document is not an
\* array and never wrap a document that is an array (filter and extract then
\* have no rows, the four others take the document's elements); flatten
\* never wraps: it flattens the document itself, to one mapping if the
\* document is not an array and element by element if it is.
C20_SecondaryFallback ==
  NothingResolved =>
    /\ (call.fn \in RowCommands /\ ~IsArray(doc)) => result.val = VArr(<<doc>>)
    /\ (call.fn \in {"filter", "extract"} /\ IsArray(doc)) =>
         result.val = VArr(<<>>)
    /\ (call.fn \in {"sort", "group", "reverse", "stats"} /\ IsArray(doc)) =>
         result.val = doc
    /\ (call.fn = "flatten" /\ ~IsArray(doc)) =>
         result.val = flattenJson(doc, <<".">>, "index")
    /\ (call.fn = "flatten" /\ IsArray(doc)) =>
         result.val = VArr([i \in 1..Len(doc.v) |->
                              flattenJson(doc.v[i], <<".">>, "index")])

\* C20 witness: flatten was given a mapping and an array path that resolves
\* to nothing, and returned the flattened mapping itself.
C20_Witness ==
  /\ call.fn = "flatten"
  /\ IsMapping(doc)
  /\ ~Falsy(path)
  /\ NothingResolved
  /\ IsMapping(result.val)
  /\ Len(result.val.v) > 0

\* filter was given a mapping and an array path that resolves to nothing,
\* and works on the mapping as its one row.
C20_WitnessWrapped ==
  /\ call.fn = "filter"
  /\ IsMapping(doc)
  /\ ~Falsy(path)
  /\ NothingResolved
  /\ result.val = VArr(<<doc>>)

----------------------------------------------------------------------------
(* The same functions over a heap: arrays and mappings are cells reached   *)
(* by reference, so that a write names the object it changes.              *)

Ref(a) == [t |-> "ref", v |-> a]

HeapOf(cells, at) == [cells |-> cells, at |-> at]

\* The array or mapping a reference leads to; a scalar is its own view.
View(cells, slot) == IF slot.t = "ref" THEN cells[slot.v] ELSE slot

Views(cells, slots) == [i \in 1..Len(slots) |-> View(cells, slots[i])]

\* [] , {} , [x] : a new object.
Alloc(cells, cell) == HeapOf(Append(cells, cell), Ref(Len(cells) + 1))

\* array.push(...slots)
PushAll(cells, a, slots) == [cells EXCEPT ![a] = VArr(@.v \o slots)]

\* object[key] = slot
SetProp(cells, a, key, slot) ==
  [cells EXCEPT ![a] = VObj(PutProp(@.v, key, slot))]

\* JSON.parse: the value is built bottom-up, one cell per array or mapping.
RECURSIVE Store(_, _)
RECURSIVE StoreItems(_, _, _)
RECURSIVE StoreEntries(_, _, _)

Sealed(h, asArray) ==
  Alloc(h.cells, IF asArray THEN VArr(h.at) ELSE VObj(h.at))

Store(cells, x) ==
  IF IsArray(x) THEN Sealed(StoreItems(cells, x.v, <<>>), TRUE)
  ELSE IF IsMapping(x) THEN Sealed(StoreEntries(cells, x.v, <<>>), FALSE)
  ELSE HeapOf(cells, x)

StoredItem(h, items, done) ==
  StoreItems(h.cells, Tail(items), Append(done, h.at))

StoreItems(cells, items, done) ==
  IF items = <<>> THEN HeapOf(cells, done)
  ELSE StoredItem(Store(cells, Head(items)), items, done)

StoredEntry(h, entries, done) ==
  StoreEntries(h.cells, Tail(entries), Append(done, Entry(Head(entries).k, h.at)))

StoreEntries(cells, entries, done) ==
  IF entries = <<>> THEN HeapOf(cells, done)
  ELSE StoredEntry(Store(cells, Head(entries).v), entries, done)

\* The value a slot stands for.
RECURSIVE Deref(_, _)
Deref(cells, slot) ==
  IF slot.t # "ref" THEN slot
  ELSE IF IsArray(cells[slot.v])
    THEN VArr([i \in 1..Len(cells[slot.v].v) |->
                 Deref(cells, cells[slot.v].v[i])])
  ELSE VObj([i \in 1..Len(cells[slot.v].v) |->
               Entry(cells[slot.v].v[i].k, Deref(cells, cells[slot.v].v[i].v))])

\* The inner loop over values (lines 87-101): every push goes to nextValues.
RECURSIVE NextValuesOnHeap(_, _, _, _)
NextValuesOnHeap(cells, nextValues, items, token) ==
  IF items = <<>> THEN cells
  ELSE NextValuesOnHeap(
         PushAll(cells, nextValues, Emit(View(cells, Head(items)), token)),
         nextValues, Tail(items), token)

\* The outer loop over tokens (lines 85-103): nextValues is a new array at
\* every turn.
RECURSIVE WalkTokensOnHeap(_, _, _)

WalkedToken(h, values, tokens) ==
  WalkTokensOnHeap(
    NextValuesOnHeap(h.cells, h.at.v, h.cells[values].v, Head(tokens)),
    h.at.v, Tail(tokens))

WalkTokensOnHeap(cells, values, tokens) ==
  IF tokens = <<>> THEN HeapOf(cells, Ref(values))
  ELSE WalkedToken(Alloc(cells, VArr(<<>>)), values, tokens)

\* values = [data], then the walk.
WalkFrom(h, tokens) == WalkTokensOnHeap(h.cells, h.at.v, tokens)

extractValuesOnHeap(cells, data, p) ==
  WalkFrom(Alloc(cells, VArr(<<data>>)), parsePath(p).val)

\* return value / return Object.values(value) / return [] (lines 119-130).
ResolvedFrom(h, values) ==
  IF FirstArrayAt(Views(h.cells, values)) # 0
    THEN HeapOf(h.cells, values[FirstArrayAt(Views(h.cells, values))])
  ELSE IF FirstMappingAt(Views(h.cells, values)) # 0
    THEN Alloc(h.cells,
               VArr(ObjectValues(
                      View(h.cells, values[FirstMappingAt(Views(h.cells, values))]))))
  ELSE Alloc(h.cells, VArr(<<>>))

Resolved(h) == ResolvedFrom(h, h.cells[h.at.v].v)

resolveArrayOnHeap(cells, data, arrayPath) ==
  IF ~Falsy(arrayPath) THEN Resolved(extractValuesOnHeap(cells, data, arrayPath))
  ELSE IF IsArray(View(cells, data)) THEN HeapOf(cells, data)
  ELSE Alloc(cells, VArr(<<>>))

\* output[prefix] = {} and output[prefix] = [] : a new empty object is
\* written.
RecordNew(h, output, prefix) == SetProp(h.cells, output, prefix, h.at)

RECURSIVE WalkOnHeap(_, _, _, _, _, _)
RECURSIVE WalkEntriesOnHeap(_, _, _, _, _, _)
RECURSIVE WalkItemsOnHeap(_, _, _, _, _, _, _)

WalkEntriesOnHeap(cells, output, entries, prefix, separator, arrayMode) ==
  IF entries = <<>> THEN cells
  ELSE WalkEntriesOnHeap(
         WalkOnHeap(cells, output, Head(entries).v,
                    KeyPrefix(prefix, separator, Head(entries).k),
                    separator, arrayMode),
         output, Tail(entries), prefix, separator, arrayMode)

WalkItemsOnHeap(cells, output, items, idx, prefix, separator, arrayMode) ==
  IF idx >= Len(items) THEN cells
  ELSE WalkItemsOnHeap(
         WalkOnHeap(cells, output, items[idx + 1],
                    IndexPrefix(prefix, idx, arrayMode), separator, arrayMode),
         output, items, idx + 1, prefix, separator, arrayMode)

\* if (!value.length && prefix) output[prefix] = []
AfterItems(cells, output, items, prefix) ==
  IF Len(items) = 0 /\ RecordsEmpty(prefix)
    THEN RecordNew(Alloc(cells, VArr(<<>>)), output, prefix)
  ELSE cells

\* walk(value, prefix) for the value seen through its reference.
WalkView(cells, output, value, seen, prefix, separator, arrayMode) ==
  IF IsMapping(seen)
    THEN IF Len(seen.v) = 0 /\ RecordsEmpty(prefix)
           THEN RecordNew(Alloc(cells, VObj(<<>>)), output, prefix)
           ELSE WalkEntriesOnHeap(cells, output, seen.v, prefix, separator,
                                  arrayMode)
  ELSE IF IsArray(seen)
    THEN IF KeepsWhole(Views(cells, seen.v), arrayMode)
           THEN SetProp(cells, output, prefix, value)
           ELSE AfterItems(
                  WalkItemsOnHeap(cells, output, seen.v, 0, prefix, separator,
                                  arrayMode),
                  output, seen.v, prefix)
  ELSE SetProp(cells, output, prefix, value)

WalkOnHeap(cells, output, value, prefix, separator, arrayMode) ==
  WalkView(cells, output, value, View(cells, value), prefix, separator,
           arrayMode)

\* Mutant: a mapping is flattened into itself.
OutputInPlace(cells, data) ==
  IF IsMapping(View(cells, data)) THEN HeapOf(cells, data)
  ELSE Alloc(cells, VObj(<<>>))

\* const output = {}
NewOutput(cells, data) == Alloc(cells, VObj(<<>>))

\* walk(data, ""); return output
WalkInto(h, data, separator, arrayMode) ==
  HeapOf(WalkOnHeap(h.cells, h.at.v, data, <<>>, separator, arrayMode), h.at)

flattenJsonOnHeap(cells, data, separator, arrayMode) ==
  WalkInto(NewOutput(cells, data), data, separator, arrayMode)

HeapDocs == Docs \cup {DocFlatIndex, DocFlatRows, DocFlatEmptyKey, DocFlatMixed}

\* The document as JSON.parse leaves it in memory.
Loaded(x) == Store(<<>>, x)

HeapInit ==
  /\ doc \in {Loaded(x) : x \in HeapDocs}
  /\ path \in ArrayPaths
  /\ call = [fn |-> "none", arrayMode |-> "index"]
  /\ result = Returned(HeapOf(<<>>, VNull))

Called(fn) == [fn |-> fn, arrayMode |-> "index"]

CallExtractValuesOnHeap ==
  /\ call.fn = "none"
  /\ call' = Called("extractValues")
  /\ result' = Returned(extractValuesOnHeap(doc.cells, doc.at, path))
  /\ UNCHANGED <<doc, path>>

\* existsPath and firstValue: extractValues, then a read of its result.
ExistsIn(h) == HeapOf(h.cells, VBool(Len(h.cells[h.at.v].v) > 0))

FirstIn(h, defaultValue) ==
  HeapOf(h.cells,
         IF Len(h.cells[h.at.v].v) > 0 THEN h.cells[h.at.v].v[1]
         ELSE defaultValue)

CallExistsPathOnHeap ==
  /\ call.fn = "none"
  /\ call' = Called("existsPath")
  /\ result' = Returned(ExistsIn(extractValuesOnHeap(doc.cells, doc.at, path)))
  /\ UNCHANGED <<doc, path>>

CallFirstValueOnHeap ==
  /\ call.fn = "none"
  /\ call' = Called("firstValue")
  /\ result' =
       Returned(FirstIn(extractValuesOnHeap(doc.cells, doc.at, path), VNull))
  /\ UNCHANGED <<doc, path>>

CallResolveArrayOnHeap ==
  /\ call.fn = "none"
  /\ call' = Called("resolveArray")
  /\ result' = Returned(resolveArrayOnHeap(doc.cells, doc.at, path))
  /\ UNCHANGED <<doc, path>>

CallFlattenJsonOnHeap ==
  /\ call.fn = "none"
  /\ \E mode \in ArrayModes :
       /\ call' = [fn |-> "flattenJson", arrayMode |-> mode]
       /\ result' =
            Returned(flattenJsonOnHeap(doc.cells, doc.at, <<".">>, mode))
  /\ UNCHANGED <<doc, path>>

HeapNext ==
  \/ CallExtractValuesOnHeap
  \/ CallExistsPathOnHeap
  \/ CallFirstValueOnHeap
  \/ CallResolveArrayOnHeap
  \/ CallFlattenJsonOnHeap

SpecHeap == HeapInit /\ [][HeapNext]_vars

\* The document as a value, and what the call returned as a value.
DocValue == Deref(doc.cells, doc.at)

ReturnedValue == Deref(result.val.cells, result.val.at)

\* The functions over the heap return what the functions over values do.
HeapAgrees ==
  /\ call.fn = "extractValues" =>
       ReturnedValue = VArr(extractValues(DocValue, path).val)
  /\ call.fn = "existsPath" =>
       ReturnedValue = VBool(existsPath(DocValue, path).val)
  /\ call.fn = "firstValue" =>
       ReturnedValue = firstValue(DocValue, path, VNull).val
  /\ call.fn = "resolveArray" =>
       ReturnedValue = VArr(resolveArray(DocValue, path).val)
  /\ call.fn = "flattenJson" =>
       ReturnedValue = flattenJson(DocValue, <<".">>, call.arrayMode)

\* C21: after a call of extractValues, existsPath, firstValue, resolveArray
\* or flattenJson every array and mapping of the document holds the same
\* keys, elements and order as before: the cells of the document are what
\* they were, and the document read again is the same value.
C21_InputUnchanged ==
  call.fn # "none" =>
    /\ Len(result.val.cells) >= Len(doc.cells)
    /\ SubSeq(result.val.cells, 1, Len(doc.cells)) = doc.cells
    /\ Deref(result.val.cells, doc.at) = DocValue

\* C21 witness: flattenJson has written three entries into its output for
\* {"a":{"b":1},"c":[1,2]}, in a cell that is not one of the document's.
C21_Witness ==
  /\ call.fn = "flattenJson"
  /\ call.arrayMode = "index"
  /\ DocValue = DocFlatIndex
  /\ result.val.at.v > Len(doc.cells)
  /\ Len(result.val.cells[result.val.at.v].v) = 3

----------------------------------------------------------------------------
(* Row sampling.                                                           *)

\* The record array extract works on when neither --first nor --last is
\* given.
AllRows == extractRows(doc, path, NoLimit, NoLimit)

\* The first and the last min(n, length) rows, in order.
FirstRows(rows, n) == SubSeq(rows, 1, Min(n, Len(rows)))

LastRows(rows, n) == SubSeq(rows, Len(rows) - Min(n, Len(rows)) + 1, Len(rows))

\* C22: --first N gives exactly the first min(N, n) rows of the record array
\* and --last N exactly the last min(N, n), in order, none for N = 0, the
\* single-record fallback included (the original claim; slice(-0) is the
\* whole array and the fallback runs after the slicing).
C22_RowSampling ==
  call.fn = "extract" =>
    /\ (call.first # NoLimit /\ call.last = NoLimit) =>
         result.val.v = FirstRows(AllRows, call.first[1])
    /\ (call.last # NoLimit /\ call.first = NoLimit) =>
         result.val.v = LastRows(AllRows, call.last[1])

----------------------------------------------------------------------------
(* CSV: parseCsv, findHeaderRow, loadCsv, writeCsv.                        *)

LF == "\n"

CR == "\r"

Quote == "\""

\* The while loop of parseCsv from position i (counted from 1) on, and the
\* flush after it.
RECURSIVE ParseCsvFrom(_, _, _, _, _, _, _)
ParseCsvFrom(text, i, rows, row, field, inQuotes, delimiter) ==
  IF i > Len(text)
    THEN IF field # <<>> \/ Len(row) > 0 THEN Append(rows, Append(row, field))
         ELSE rows
  ELSE IF inQuotes
    THEN IF text[i] = Quote
           THEN IF i + 1 <= Len(text) /\ text[i + 1] = Quote
                  THEN ParseCsvFrom(text, i + 2, rows, row,
                                    Append(field, Quote), TRUE, delimiter)
                  ELSE ParseCsvFrom(text, i + 1, rows, row, field, FALSE,
                                    delimiter)
         ELSE ParseCsvFrom(text, i + 1, rows, row, Append(field, text[i]),
                           TRUE, delimiter)
  ELSE IF text[i] = Quote
    THEN ParseCsvFrom(text, i + 1, rows, row, field, TRUE, delimiter)
  ELSE IF text[i] = delimiter
    THEN ParseCsvFrom(text, i + 1, rows, Append(row, field), <<>>, FALSE,
                      delimiter)
  ELSE IF text[i] = LF \/ text[i] = CR
    THEN ParseCsvFrom(
           text,
           IF text[i] = CR /\ i + 1 <= Len(text) /\ text[i + 1] = LF
             THEN i + 2 ELSE i + 1,
           Append(rows, Append(row, field)), <<>>, <<>>, FALSE, delimiter)
  ELSE ParseCsvFrom(text, i + 1, rows, row, Append(field, text[i]), FALSE,
                    delimiter)

parseCsv(text, delimiter) ==
  ParseCsvFrom(text, 1, <<>>, <<>>, <<>>, FALSE, delimiter)

\* White space that String.prototype.trim removes.
WhiteSpace == {" ", "\t", LF, CR}

\* !s.trim()
BlankText(s) == \A i \in 1..Len(s) : s[i] \in WhiteSpace

isBlankRow(row) == \A i \in 1..Len(row) : BlankText(row[i])

\* The elements of a sequence that pass a test, in order.
RECURSIVE NonBlankRows(_)
NonBlankRows(rowsList) ==
  IF rowsList = <<>> THEN <<>>
  ELSE (IF isBlankRow(Head(rowsList)) THEN <<>> ELSE <<Head(rowsList)>>)
         \o NonBlankRows(Tail(rowsList))

\* countFreq: the column counts in order of first appearance, each with the
\* number of rows having it.
RECURSIVE CountFreq(_, _)
CountFreq(counts, rowsList) ==
  IF rowsList = <<>> THEN counts
  ELSE CountFreq(CountOne(counts, Len(Head(rowsList))), Tail(rowsList))

\* [...countFreq.entries()].sort((a, b) => b[1] - a[1]): stable, larger
\* frequencies first.
RECURSIVE InsertByFreq(_, _)
InsertByFreq(sorted, e) ==
  IF sorted = <<>> THEN <<e>>
  ELSE IF e.count > Head(sorted).count THEN <<e>> \o sorted
  ELSE <<Head(sorted)>> \o InsertByFreq(Tail(sorted), e)

RECURSIVE SortByFreq(_, _)
SortByFreq(sorted, entries) ==
  IF entries = <<>> THEN sorted
  ELSE SortByFreq(InsertByFreq(sorted, Head(entries)), Tail(entries))

MinSameCount == 2

\* best: the first count of the sorted list with freq >= minSameCount, else
\* the first count of the list.
BestCount(sorted) ==
  IF \E i \in 1..Len(sorted) : sorted[i].count >= MinSameCount
    THEN sorted[CHOOSE i \in 1..Len(sorted) :
                  /\ sorted[i].count >= MinSameCount
                  /\ \A j \in 1..(i - 1) : sorted[j].count < MinSameCount].key
  ELSE sorted[1].key

\* The index (from 0) of the first row with best fields, 0 when none.
FirstWithCount(rowsList, best) ==
  IF \E i \in 1..Len(rowsList) : Len(rowsList[i]) = best
    THEN (CHOOSE i \in 1..Len(rowsList) :
            /\ Len(rowsList[i]) = best
            /\ \A j \in 1..(i - 1) : Len(rowsList[j]) # best) - 1
  ELSE 0

findHeaderRow(rowsList) ==
  IF NonBlankRows(rowsList) = <<>> THEN 0
  ELSE FirstWithCount(rowsList,
         BestCount(SortByFreq(<<>>, CountFreq(<<>>, NonBlankRows(rowsList)))))

\* The byte order mark, one character of the text.
BOM == "BOM"

\* content.split(/\r?\n/) from position i on, cur being the line so far.
RECURSIVE SplitLinesFrom(_, _, _)
SplitLinesFrom(content, i, cur) ==
  IF i > Len(content) THEN <<cur>>
  ELSE IF content[i] = LF
    THEN <<cur>> \o SplitLinesFrom(content, i + 1, <<>>)
  ELSE IF content[i] = CR /\ i + 1 <= Len(content) /\ content[i + 1] = LF
    THEN <<cur>> \o SplitLinesFrom(content, i + 2, <<>>)
  ELSE SplitLinesFrom(content, i + 1, Append(cur, content[i]))

SplitLines(content) == SplitLinesFrom(content, 1, <<>>)

\* lines.join("\n")
RECURSIVE JoinLines(_)
JoinLines(lines) ==
  IF lines = <<>> THEN <<>>
  ELSE IF Len(lines) = 1 THEN lines[1]
  ELSE lines[1] \o <<LF>> \o JoinLines(Tail(lines))

\* line.trim() as far as its start goes.
RECURSIVE TrimStart(_)
TrimStart(s) ==
  IF s # <<>> /\ Head(s) \in WhiteSpace THEN TrimStart(Tail(s)) ELSE s

NoComment == <<>>

RECURSIVE linesFilterComment(_, _)
linesFilterComment(lines, commentChar) ==
  IF commentChar = NoComment \/ lines = <<>> THEN lines
  ELSE (IF TrimStart(Head(lines)) # <<>>
           /\ Head(TrimStart(Head(lines))) = commentChar[1]
          THEN <<>> ELSE <<Head(lines)>>)
         \o linesFilterComment(Tail(lines), commentChar)

\* while (lines.length && !lines[0].trim()) lines = lines.slice(1)
RECURSIVE DropBlankLines(_)
DropBlankLines(lines) ==
  IF lines # <<>> /\ BlankText(Head(lines)) THEN DropBlankLines(Tail(lines))
  ELSE lines

\* while (rowsList.length && isBlankRow(rowsList[0])) rowsList = rowsList.slice(1)
RECURSIVE DropBlankRows(_)
DropBlankRows(rowsList) ==
  IF rowsList # <<>> /\ isBlankRow(Head(rowsList))
    THEN DropBlankRows(Tail(rowsList))
  ELSE rowsList

\* lines.slice(n)
SliceFrom(s, n) == SubSeq(s, n + 1, Len(s))

Loaded3(columns, rows, headerRow) ==
  [columns |-> columns, rows |-> rows, headerRow |-> headerRow]

NothingLoaded == Loaded3(<<>>, <<>>, 0)

\* The lines loadCsv parses: the text without its byte order mark, split,
\* without comment lines and leading blank lines, after skipLines.
KeptLines(text, commentChar, skipLines) ==
  SliceFrom(
    DropBlankLines(
      linesFilterComment(
        SplitLines(IF text # <<>> /\ Head(text) = BOM THEN Tail(text)
                   ELSE text),
        commentChar)),
    skipLines)

\* lines.join("\n") + "\n": no line ends with a line feed after the split.
TextToParse(lines) == JoinLines(lines) \o <<LF>>

\* Array.from({ length: ncols }, (_, i) => `col${i}`)
ColNames(ncols) == [i \in 1..ncols |-> <<"c", "o", "l">> \o NumToChars(i - 1)]

\* Mutant: rows with more fields than the header are kept as well.
RECURSIVE WithLenAtLeast(_, _)
WithLenAtLeast(dataRowsRaw, expectedLen) ==
  IF dataRowsRaw = <<>> THEN <<>>
  ELSE (IF Len(Head(dataRowsRaw)) >= expectedLen THEN <<Head(dataRowsRaw)>>
        ELSE <<>>) \o WithLenAtLeast(Tail(dataRowsRaw), expectedLen)

\* dataRowsRaw.filter((r) => r.length === expectedLen)
RECURSIVE WithLen(_, _)
WithLen(dataRowsRaw, expectedLen) ==
  IF dataRowsRaw = <<>> THEN <<>>
  ELSE (IF Len(Head(dataRowsRaw)) = expectedLen THEN <<Head(dataRowsRaw)>>
        ELSE <<>>) \o WithLen(Tail(dataRowsRaw), expectedLen)

\* obj[header[i]] = r[i] for i from the given one on.
RECURSIVE RowObject(_, _, _, _)
RowObject(obj, header, r, i) ==
  IF i > Len(header) THEN obj
  ELSE RowObject(PutProp(obj, header[i], VStr(r[i])), header, r, i + 1)

RowObjects(header, dataRows) ==
  [n \in 1..Len(dataRows) |-> RowObject(<<>>, header, dataRows[n], 1)]

\* The result once the header, the rows after it and its number are known.
LoadedWith(header, dataRowsRaw, headerRow) ==
  Loaded3(header, RowObjects(header, WithLen(dataRowsRaw, Len(header))),
          headerRow)

\* loadCsv from the parsed rows without their leading blank rows on.
LoadedRows(rowsList, hasHeader, skipLines) ==
  IF rowsList = <<>> THEN NothingLoaded
  ELSE IF hasHeader /\ skipLines > 0
    THEN LoadedWith(rowsList[1], Tail(rowsList), 1)
  ELSE IF hasHeader
    THEN LoadedWith(rowsList[findHeaderRow(rowsList) + 1],
                    SliceFrom(rowsList, findHeaderRow(rowsList) + 1),
                    findHeaderRow(rowsList) + 1)
  ELSE LoadedWith(ColNames(Len(rowsList[1])), rowsList, 0)

LoadedLines(lines, delimiter, hasHeader, skipLines) ==
  IF lines = <<>> THEN NothingLoaded
  ELSE LoadedRows(DropBlankRows(parseCsv(TextToParse(lines), delimiter)),
                  hasHeader, skipLines)

\* loadCsv(path, {delimiter, hasHeader, commentChar, textOverride: text,
\* skipLines}); skipLines 0 stands for null as well.
loadCsv(text, delimiter, hasHeader, commentChar, skipLines) ==
  LoadedLines(KeptLines(text, commentChar, skipLines), delimiter, hasHeader,
              skipLines)

----------------------------------------------------------------------------
(* The CSV loader as a state machine: a text and options, then loadCsv,    *)
(* then loadCsv again on the same text with skipLines = headerRow - 1.     *)

MaxTextLen == 4

CsvAlphabet == {"a", ",", LF, Quote}

ShortTexts == UNION {[1..n -> CsvAlphabet] : n \in 0..MaxTextLen}

\* a / a,a / a,a with a title line: the header is the second row.
TextPreamble == <<"t", LF, "a", ",", "b", LF, "1", ",", "2", LF>>

\* A footer of another field count after the data.
TextFooter == <<"a", ",", "b", LF, "1", ",", "2", LF, "e", "n", "d", LF>>

\* A title, a line of delimiters only, then header and data.
TextBlankHeader == <<"t", LF, ",", LF, "a", ",", "b", LF, "1", ",", "2", LF>>

\* A line of delimiters only before the title.
TextBlankFirst == <<",", LF, "t", LF, "a", ",", "b", LF, "1", ",", "2", LF>>

\* A title that is one quoted field of two lines.
TextQuotedTitle ==
  <<Quote, "t", LF, "u", Quote, LF, "a", ",", "b", LF, "1", ",", "2", LF>>

\* A comment line, CR LF line ends and a byte order mark.
TextComment ==
  <<BOM, "#", "x", CR, LF, "a", ",", "b", CR, LF, "1", ",", "2", CR, LF>>

\* No column count occurs twice.
TextNoStable == <<"a", LF, "b", ",", "c", LF>>

ExampleTexts ==
  {TextPreamble, TextFooter, TextBlankHeader, TextBlankFirst, TextQuotedTitle,
   TextComment, TextNoStable}

CsvTexts == ShortTexts \cup ExampleTexts

CsvOptions ==
  [delimiter : {","}, hasHeader : BOOLEAN, commentChar : {NoComment, <<"#">>},
   skipLines : {0, 1}]

CsvInit ==
  /\ doc \in CsvTexts
  /\ path \in CsvOptions
  /\ call = [fn |-> "none"]
  /\ result = [first |-> NothingLoaded, again |-> NothingLoaded]

\* loadCsv(path, options)
CallLoadCsv ==
  /\ call.fn = "none"
  /\ call' = [fn |-> "loadCsv"]
  /\ result' = [result EXCEPT !.first =
                  loadCsv(doc, path.delimiter, path.hasHeader,
                          path.commentChar, path.skipLines)]
  /\ UNCHANGED <<doc, path>>

\* The same text loaded again with --skip-lines headerRow - 1, after a load
\* that detected the header.
CallLoadCsvSkipping ==
  /\ call.fn = "loadCsv"
  /\ path.hasHeader /\ path.skipLines = 0
  /\ result.first.headerRow >= 1
  /\ call' = [fn |-> "loadCsvSkipping"]
  /\ result' = [result EXCEPT !.again =
                  loadCsv(doc, path.delimiter, TRUE, path.commentChar,
                          result.first.headerRow - 1)]
  /\ UNCHANGED <<doc, path>>

CsvNext == CallLoadCsv \/ CallLoadCsvSkipping

SpecCsv == CsvInit /\ [][CsvNext]_vars

\* The rows loadCsv parses.
ParsedRows ==
  DropBlankRows(
    parseCsv(TextToParse(KeptLines(doc, path.commentChar, path.skipLines)),
             path.delimiter))

Detecting == call.fn # "none" /\ path.hasHeader /\ path.skipLines = 0

\* (row[col] ?? "").toString() for a row whose values are strings.
CellText(row, col) ==
  IF \E i \in 1..Len(row) : row[i].k = col
    THEN row[EntryAt(row, col)].v.v
  ELSE <<>>

\* The parsed rows after the header that have its field count.
ConformingRows ==
  {i \in (result.first.headerRow + 1)..Len(ParsedRows) :
     Len(ParsedRows[i]) = Len(result.first.columns)}

\* The n-th index of a set of indexes.
NthIndex(S, n) == CHOOSE i \in S : Cardinality({j \in S : j <= i}) = n

\* The last column with the name of column c: its value is the one the row
\* object keeps under that name.
LastNamed(columns, c) ==
  CHOOSE j \in 1..Len(columns) :
    /\ columns[j] = columns[c]
    /\ \A k \in (j + 1)..Len(columns) : columns[k] # columns[c]

\* C23: the rows loadCsv returns are exactly the parsed rows after the header
\* that have the header's field count, in file order, each an object with
\* the header's columns as keys and the row's fields as values; rows of any
\* other field count are ignored.
C23_OnlyConformingRows ==
  call.fn # "none" =>
    /\ Len(result.first.rows) = Cardinality(ConformingRows)
    /\ \A n \in 1..Len(result.first.rows) :
         /\ {result.first.rows[n][i].k : i \in 1..Len(result.first.rows[n])}
              = {result.first.columns[i] : i \in 1..Len(result.first.columns)}
         /\ \A c \in 1..Len(result.first.columns) :
              CellText(result.first.rows[n], result.first.columns[c])
                = ParsedRows[NthIndex(ConformingRows, n)]
                            [LastNamed(result.first.columns, c)]

\* A footer of another field count is left out, the data row is returned.
C23_Witness ==
  /\ call.fn = "loadCsv" /\ doc = TextFooter
  /\ path.hasHeader /\ path.skipLines = 0 /\ path.commentChar = NoComment
  /\ ParsedRows[3] = <<<<"e", "n", "d">>>>
  /\ result.first.columns = <<<<"a">>, <<"b">>>>
  /\ Len(result.first.rows) = 1
  /\ CellText(result.first.rows[1], <<"b">>) = <<"2">>

\* The number of non-blank rows with n fields.
RowsWithCount(rows, n) ==
  Cardinality({i \in 1..Len(rows) : ~isBlankRow(rows[i]) /\ Len(rows[i]) = n})

\* The column counts that occur most often among the non-blank rows and in
\* at least two of them.
StableCounts(rows) ==
  {n \in {Len(rows[i]) : i \in 1..Len(rows)} :
     /\ RowsWithCount(rows, n) >= MinSameCount
     /\ \A i \in 1..Len(rows) :
          RowsWithCount(rows, Len(rows[i])) <= RowsWithCount(rows, n)}

\* C24: with hasHeader and no skipLines the header is the first parsed row
\* whose column count is the stable column count (the count that occurs most
\* often among the non-blank rows, in at least two of them), and a blank row
\* is never the header.
C24_HeaderIsFirstStableRow ==
  (Detecting /\ result.first.headerRow >= 1) =>
    /\ ~isBlankRow(result.first.columns)
    /\ StableCounts(ParsedRows) # {} =>
         /\ Len(result.first.columns) \in StableCounts(ParsedRows)
         /\ result.first.columns = ParsedRows[result.first.headerRow]
         /\ \A j \in 1..(result.first.headerRow - 1) :
              Len(ParsedRows[j]) # Len(result.first.columns)

\* C25: when the detecting loadCsv reports headerRow = h >= 1, loadCsv on the
\* same text with skipLines = h - 1 returns the same columns and the same
\* data rows.
C25_SkipLinesReproduces ==
  call.fn = "loadCsvSkipping" =>
    /\ result.again.columns = result.first.columns
    /\ result.again.rows = result.first.rows

----------------------------------------------------------------------------
(* JSON probe: findBestArrayChild, detectLayout, and resolveArray on the   *)
(* path probe recommends.                                                  *)

\* The index of the entry findBestArrayChild ends with: the first array
\* longer than every array before it and not shorter than any after, 0 when
\* there is no array with elements.
BestEntry(entries) ==
  IF \E i \in 1..Len(entries) : IsArray(entries[i].v) /\ Len(entries[i].v.v) > 0
    THEN CHOOSE i \in 1..Len(entries) :
           /\ IsArray(entries[i].v)
           /\ \A j \in 1..Len(entries) :
                IsArray(entries[j].v) =>
                  /\ Len(entries[j].v.v) <= Len(entries[i].v.v)
                  /\ j < i => Len(entries[j].v.v) < Len(entries[i].v.v)
  ELSE 0

\* [bestKey, bestArr], null and [] when no array has elements.
findBestArrayChild(data) ==
  IF BestEntry(data.v) = 0 THEN [bestKey |-> PNull, bestArr |-> <<>>]
  ELSE [bestKey |-> PStr(data.v[BestEntry(data.v)].k),
        bestArr |-> data.v[BestEntry(data.v)].v.v]

Layout(layout, records, recommended) ==
  [layout |-> layout, record_count |-> Len(records),
   recommended_array_path |-> recommended, records |-> records]

\* values.filter((v) => v && typeof v === "object" && !Array.isArray(v)).length
DictCount(values) == Cardinality({i \in 1..Len(values) : IsMapping(values[i])})

\* values.length > 0 && dictCount / values.length >= 0.8
MostlyDicts(values) == Len(values) > 0 /\ 5 * DictCount(values) >= 4 * Len(values)

\* The nested-array and object results, given findBestArrayChild's.
LayoutWithBest(data, best) ==
  IF ~Falsy(best.bestKey) /\ Len(best.bestArr) > 0
    THEN Layout("nested-array", best.bestArr, best.bestKey)
  ELSE Layout("object", <<data>>, PNull)

detectLayout(data) ==
  IF IsArray(data) THEN Layout("array", data.v, PNull)
  ELSE IF IsMapping(data)
    THEN IF MostlyDicts(ObjectValues(data))
           THEN Layout("object-of-objects", ObjectValues(data), PStr(<<".">>))
         ELSE LayoutWithBest(data, findBestArrayChild(data))
  ELSE Layout("scalar", <<>>, PNull)

ProbeKeys == {<<"a">>, <<"b">>, <<"a", ".", "b">>, <<"a", "[", "0", "]">>,
              <<"*">>, <<>>}

ProbeValues ==
  {VNum(1), VObj(<<>>), Obj1("x", VNum(1)), Nums(<<1>>), Nums(<<1, 2>>),
   VArr(<<>>)}

ProbeDocs ==
  {VNum(1), VNull, Nums(<<1, 2>>), VObj(<<>>)}
    \cup {VObj(<<Entry(k, x)>>) : k \in ProbeKeys, x \in ProbeValues}
    \cup {VObj(<<Entry(k[1], x[1]), Entry(k[2], x[2])>>) :
            k \in {kk \in ProbeKeys \X ProbeKeys : kk[1] # kk[2]},
            x \in ProbeValues \X ProbeValues}

ProbeInit ==
  /\ doc \in ProbeDocs
  /\ path = PNull
  /\ call = [fn |-> "none"]
  /\ result = [probe |-> Layout("scalar", <<>>, PNull),
               resolved |-> Returned(<<>>)]

\* probe: detectLayout(data); the recommended path is what a later command
\* gets as --array-path.
CallDetectLayout ==
  /\ call.fn = "none"
  /\ call' = [fn |-> "detectLayout"]
  /\ result' = [result EXCEPT !.probe = detectLayout(doc)]
  /\ path' = detectLayout(doc).recommended_array_path
  /\ UNCHANGED doc

\* resolveArray(data, recommended_array_path)
CallResolveRecommended ==
  /\ call.fn = "detectLayout"
  /\ call' = [fn |-> "resolveArray"]
  /\ result' = [result EXCEPT !.resolved = resolveArray(doc, path)]
  /\ UNCHANGED <<doc, path>>

ProbeNext == CallDetectLayout \/ CallResolveRecommended

SpecProbe == ProbeInit /\ [][ProbeNext]_vars

\* C27: for every document that probe classifies as nested-array or
\* object-of-objects, resolveArray on the recommended path returns exactly
\* the records probe inspected, record_count of them, whatever the top-level
\* key names are.
C27_RecommendationResolves ==
  (/\ call.fn = "resolveArray"
   /\ result.probe.layout \in {"nested-array", "object-of-objects"}) =>
    /\ ~result.resolved.threw
    /\ result.resolved.val = result.probe.records
    /\ Len(result.resolved.val) = result.probe.record_count

----------------------------------------------------------------------------
(* JSON diff: normalizeForSet and diffValues.                              *)

RECURSIVE normalizeForSet(_)

\* Object.entries(value).sort(([a], [b]) => a.localeCompare(b)).map(...):
\* the [key, normalized value] pairs in the order of the sorted keys (keys
\* of lower-case letters and digits, which localeCompare orders as sort()).
NormalizedPairs(value, keys) ==
  [i \in 1..Len(keys) |->
     VArr(<<VStr(keys[i]), normalizeForSet(ValueAt(value, keys[i]))>>)]

normalizeForSet(value) ==
  IF IsMapping(value) THEN VArr(NormalizedPairs(value, SortedKeys(value.v)))
  ELSE IF IsArray(value)
    THEN VArr([i \in 1..Len(value.v) |-> normalizeForSet(value.v[i])])
  ELSE value

\* new Set(items.map((item) => JSON.stringify(normalizeForSet(item))))
SetOfTexts(items) ==
  {JSONStringify(normalizeForSet(items[i])) : i \in 1..Len(items)}

typeName(value) ==
  CASE value.t = "null" -> "null"
    [] value.t = "bool" -> "bool"
    [] value.t = "num" -> "int"
    [] value.t = "str" -> "string"
    [] value.t = "array" -> "array"
    [] value.t = "object" -> "object"
    [] value.t = "undefined" -> "unknown"

\* One entry of changes; a field the entry does not have is undefined
\* (left, right) or empty (the type names).
Change(at, kind, left, right) ==
  [path |-> at, kind |-> kind, left |-> left, right |-> right,
   left_type |-> "", right_type |-> ""]

TypeChange(at, left, right) ==
  [path |-> at, kind |-> "type_change", left |-> left, right |-> right,
   left_type |-> typeName(left), right_type |-> typeName(right)]

\* path || "$"
PathOrRoot(at) == IF at = <<>> THEN <<"$">> ELSE at

\* path ? `${path}.${key}` : key
KeyPath(at, key) == IF at = <<>> THEN key ELSE at \o <<".">> \o key

\* path ? `${path}[${idx}]` : `[${idx}]`
IndexPath(at, idx) == at \o <<"[">> \o NumToChars(idx) \o <<"]">>

\* The sorted keys of one mapping that the other has not (has = FALSE) or
\* has as well (has = TRUE).
RECURSIVE KeysFiltered(_, _, _)
KeysFiltered(keys, other, has) ==
  IF keys = <<>> THEN <<>>
  ELSE (IF HasKey(other, Head(keys)) = has THEN <<Head(keys)>> ELSE <<>>)
         \o KeysFiltered(Tail(keys), other, has)

\* changes.push({path, kind: "removed", left: left[key]}) for each key.
RemovedKeys(keys, left, at) ==
  [i \in 1..Len(keys) |->
     Change(KeyPath(at, keys[i]), "removed", ValueAt(left, keys[i]),
            VUndefined)]

AddedKeys(keys, right, at) ==
  [i \in 1..Len(keys) |->
     Change(KeyPath(at, keys[i]), "added", VUndefined,
            ValueAt(right, keys[i]))]

\* The elements from index from (counted from 0) on that only the longer
\* array has.
RemovedItems(left, from, at) ==
  [i \in 1..(Len(left) - from) |->
     Change(IndexPath(at, from + i - 1), "removed", left[from + i], VUndefined)]

AddedItems(right, from, at) ==
  [i \in 1..(Len(right) - from) |->
     Change(IndexPath(at, from + i - 1), "added", VUndefined, right[from + i])]

RECURSIVE diffValues(_, _, _, _, _)
RECURSIVE DiffKeys(_, _, _, _, _, _)
RECURSIVE DiffItems(_, _, _, _, _, _)

\* diffValues(left[key], right[key], childPath, changes, ignoreOrder) for
\* each common key.
DiffKeys(keys, left, right, at, changes, ignoreOrder) ==
  IF keys = <<>> THEN changes
  ELSE DiffKeys(Tail(keys), left, right, at,
                diffValues(ValueAt(left, Head(keys)), ValueAt(right, Head(keys)),
                           KeyPath(at, Head(keys)), changes, ignoreOrder),
                ignoreOrder)

\* diffValues(left[idx], right[idx], ...) for idx below minLen.
DiffItems(idx, left, right, at, changes, ignoreOrder) ==
  IF idx >= Min(Len(left), Len(right)) THEN changes
  ELSE DiffItems(idx + 1, left, right, at,
                 diffValues(left[idx + 1], right[idx + 1], IndexPath(at, idx),
                            changes, ignoreOrder),
                 ignoreOrder)

\* The changes after the call; changes is the list before it.
diffValues(left, right, at, changes, ignoreOrder) ==
  IF \/ TypeOf(left) # TypeOf(right)
     \/ IsArray(left) # IsArray(right)
     \/ (left = VNull) # (right = VNull)
    THEN Append(changes, TypeChange(PathOrRoot(at), left, right))
  ELSE IF IsMapping(left)
    THEN DiffKeys(KeysFiltered(SortedKeys(left.v), right, TRUE), left, right,
                  at,
                  changes
                    \o RemovedKeys(KeysFiltered(SortedKeys(left.v), right, FALSE),
                                   left, at)
                    \o AddedKeys(KeysFiltered(SortedKeys(right.v), left, FALSE),
                                 right, at),
                  ignoreOrder)
  ELSE IF IsArray(left) /\ ignoreOrder
    THEN IF \/ Cardinality(SetOfTexts(left.v)) # Cardinality(SetOfTexts(right.v))
            \/ ~(SetOfTexts(left.v) \subseteq SetOfTexts(right.v))
           THEN Append(changes,
                       Change(PathOrRoot(at), "array_set_change", left, right))
         ELSE changes
  ELSE IF IsArray(left)
    THEN DiffItems(0, left.v, right.v, at, changes, ignoreOrder)
           \o RemovedItems(left.v, Min(Len(left.v), Len(right.v)), at)
           \o AddedItems(right.v, Min(Len(left.v), Len(right.v)), at)
  ELSE IF left # right
    THEN Append(changes, Change(PathOrRoot(at), "changed", left, right))
  ELSE changes

MaxDiffLen == 2

\* {} and [] get the same normalized text.
DiffElements == {VNum(1), VNum(2), FreqAB, FreqBA, VObj(<<>>), VArr(<<>>)}

DiffArrays ==
  {VArr(items) : items \in UNION {[1..n -> DiffElements] : n \in 0..MaxDiffLen}}
    \cup {Nums(<<1, 1, 2>>), Nums(<<1, 2, 2>>), Nums(<<2, 1, 1>>)}

DiffDocs ==
  DiffArrays
    \cup {VNull, VNum(1), VStr(<<"1">>), DocAB, Obj1("b", VNum(1)),
          Obj1("a", Nums(<<1, 2>>)), Obj1("a", Nums(<<2, 1>>)),
          Obj1("a", Nums(<<1, 1>>))}

DiffInit ==
  /\ doc \in [left : DiffDocs, right : DiffDocs]
  /\ path = PNull
  /\ call \in [fn : {"none"}, ignoreOrder : BOOLEAN]
  /\ result = <<>>

\* diffValues(left, right, "", changes, ignoreOrder) with changes = []
CallDiffValues ==
  /\ call.fn = "none"
  /\ call' = [call EXCEPT !.fn = "diffValues"]
  /\ result' = diffValues(doc.left, doc.right, <<>>, <<>>, call.ignoreOrder)
  /\ UNCHANGED <<doc, path>>

DiffNext == CallDiffValues

SpecDiff == DiffInit /\ [][DiffNext]_vars

\* How many elements of items are x, the order of mapping keys set aside.
Multiplicity(items, x) ==
  Cardinality({j \in 1..Len(items) : SameUpToKeyOrder(x, items[j])})

\* One array is a permutation of the other: the same elements with the same
\* multiplicities.
PermutationOf(l, r) ==
  /\ Len(l) = Len(r)
  /\ \A i \in 1..Len(l) : Multiplicity(l, l[i]) = Multiplicity(r, l[i])

\* C28: with --ignore-order two arrays at the same path give no change if and
\* only if one is a permutation of the other (elements compared ignoring the
\* order of mapping keys), and a single array_set_change otherwise.
C28_UnorderedArrays ==
  (/\ call.fn = "diffValues" /\ call.ignoreOrder
   /\ IsArray(doc.left) /\ IsArray(doc.right)) =>
    IF PermutationOf(doc.left.v, doc.right.v) THEN result = <<>>
    ELSE result = <<Change(<<"$">>, "array_set_change", doc.left, doc.right)>>

----------------------------------------------------------------------------
(* writeCsv, and parseCsv on the text it wrote.                            *)

\* v.includes('"') || v.includes("\n") || v.includes("\r") || v.includes(delimiter)
NeedsQuotes(v, delimiter) ==
  \E i \in 1..Len(v) : v[i] \in {Quote, LF, CR, delimiter}

\* v.replace(/"/g, '""')
RECURSIVE DoubledQuotes(_)
DoubledQuotes(v) ==
  IF v = <<>> THEN <<>>
  ELSE (IF Head(v) = Quote THEN <<Quote, Quote>> ELSE <<Head(v)>>)
         \o DoubledQuotes(Tail(v))

EscapedCell(v, delimiter) ==
  IF NeedsQuotes(v, delimiter) THEN <<Quote>> \o DoubledQuotes(v) \o <<Quote>>
  ELSE v

\* fields.join(delimiter)
RECURSIVE JoinWith(_, _)
JoinWith(fields, delimiter) ==
  IF fields = <<>> THEN <<>>
  ELSE IF Len(fields) = 1 THEN fields[1]
  ELSE fields[1] \o <<delimiter>> \o JoinWith(Tail(fields), delimiter)

\* escaped.join(delimiter) + "\n" for one row.
RowLine(columns, row, delimiter) ==
  JoinWith([i \in 1..Len(columns) |->
              EscapedCell(CellText(row, columns[i]), delimiter)], delimiter)
    \o <<LF>>

RECURSIVE RowLines(_, _, _)
RowLines(columns, rows, delimiter) ==
  IF rows = <<>> THEN <<>>
  ELSE RowLine(columns, Head(rows), delimiter)
         \o RowLines(columns, Tail(rows), delimiter)

\* Everything writeCsv writes to the stream.
writeCsv(columns, rows, delimiter) ==
  JoinWith(columns, delimiter) \o <<LF>> \o RowLines(columns, rows, delimiter)

MaxRows == 2

Delimiters == {",", ";"}

\* Cell values: empty, plain, and one for each character that asks for
\* quotes.
CellValues(delimiter) == {<<>>, <<"x">>, <<delimiter>>, <<Quote>>, <<LF>>, <<CR>>}

\* Column lists: plain names, and a name that holds a delimiter.
ColumnLists(delimiter) ==
  {<<<<"a">>>>, <<<<"a">>, <<"b">>>>, <<<<"a", delimiter, "b">>>>}

\* Rows as loadCsv builds them, one value for each column.
RowsFor(columns, delimiter) ==
  UNION {[1..n -> {RowObject(<<>>, columns, vals, 1) :
                     vals \in [1..Len(columns) -> CellValues(delimiter)]}] :
           n \in 0..MaxRows}

WriteInit ==
  /\ path \in Delimiters
  /\ doc \in UNION {[columns : {c}, rows : RowsFor(c, path)] :
                      c \in ColumnLists(path)}
  /\ call = [fn |-> "none"]
  /\ result = [text |-> <<>>, parsed |-> <<>>]

\* writeCsv(columns, rows, delimiter, stream)
CallWriteCsv ==
  /\ call.fn = "none"
  /\ call' = [fn |-> "writeCsv"]
  /\ result' = [result EXCEPT !.text = writeCsv(doc.columns, doc.rows, path)]
  /\ UNCHANGED <<doc, path>>

\* parseCsv(text, delimiter) on the written text
CallParseCsv ==
  /\ call.fn = "writeCsv"
  /\ call' = [fn |-> "parseCsv"]
  /\ result' = [result EXCEPT !.parsed = parseCsv(result.text, path)]
  /\ UNCHANGED <<doc, path>>

WriteNext == CallWriteCsv \/ CallParseCsv

SpecWrite == WriteInit /\ [][WriteNext]_vars

\* The values of the rows in column order.
RowValues(columns, rows) ==
  [n \in 1..Len(rows) |->
     [i \in 1..Len(columns) |-> CellText(rows[n], columns[i])]]

\* C30: parseCsv on the text writeCsv wrote for columns C and rows R returns
\* C as the first row and then, for each row of R in order, its values in
\* column order, whatever delimiters, quotes, CR and LF the strings hold.
C30_RoundTrip ==
  call.fn = "parseCsv" =>
    result.parsed = <<doc.columns>> \o RowValues(doc.columns, doc.rows)

====
